---- MODULE Spec2Model ----
(***************************************************************************)
(* Workflow chain execution of comfy-mobile-ui-api-extension:              *)
(*   utils/chain_executor.py          ChainExecutor (execute, interrupt)   *)
(*   utils/chain_progress_manager.py  ChainProgressManager (broadcaster)   *)
(*   handlers/chain_progress_handler.py  the observers' websocket handler  *)
(*                                                                         *)
(* The program is a set of coroutines on one asyncio event loop.  A        *)
(* coroutine runs without interruption until it suspends at an await that  *)
(* really waits (a remote call, a websocket send or receive, a sleep, a    *)
(* held lock).  `running` names the coroutine that owns the loop between   *)
(* two suspensions; labels in Suspended are the places where it gives the  *)
(* loop back.                                                              *)
(***************************************************************************)
EXTENDS Integers, Sequences, FiniteSets, TLC

\* ------------------------------------------------------------------ bounds
MaxSteps == 2
NumIntr == 1
NumObs == 1
MaxOutputs == 2
\* steps of the chain in ObsSpec
ObsSteps == 1
\* steps of the chain in MonSpec
MonSteps == 1
\* steps of the chain in BindSpec
BindSteps == 3
\* steps of the chain in RaceSpec
RaceSteps == 1
\* steps of the chain in TermSpec: 0 .. TermSteps
TermSteps == 2
\* steps of the chain in StatSpec
StatSteps == 1
\* steps of each of the two chains in DualSpec
DualSteps == 1
\* sourceWorkflowIndex of the binding in BindSpec: -MaxIndex-1 .. MaxIndex
MaxIndex == 3

\* ------------------------------------------------------- values and ids
\* Python None for an integer field (currentWorkflowIndex)
NoneIdx == 0 - 1
\* Python None for a string field (executionId, node)
NoneStr == "None"
\* Values of graph inputs are tuples of strings: <<v>> is the string v,
\* <<"chain_result", x, f>> the path "chain_result/{x}_{f}".
\* JSON false as the value of a graph input (save_output):
JFalse == <<"<false>">>
NoProc == <<"none", 0>>

Execs == {<<"exec", 1>>, <<"exec", 2>>}
FirstExec == <<"exec", 1>>
\* NumIntr callers of interrupt() in Spec, one more in SpecIntr
Intrs == {<<"intr", k>> : k \in 1..(NumIntr + 1)}
SpareIntr == <<"intr", NumIntr + 1>>
\* NumObs websocket clients in Spec, one more in ObsSpec
Obs == {<<"obs", k>> : k \in 1..(NumObs + 1)}
SpareObs == <<"obs", NumObs + 1>>
Procs == Execs \cup Intrs \cup Obs

Range(s) == {s[k] : k \in 1..Len(s)}

\* ---------------------------------------------------------- job graphs
\* A job graph (apiFormat) is an ordered dict node id -> {inputs: {...}}:
\* a sequence of [id, hasInputs, inputs], inputs a function field -> value.
GraphNode(id, inputs) == [id |-> id, hasInputs |-> TRUE, inputs |-> inputs]

HasNode(graph, id) == \E k \in 1..Len(graph) : graph[k].id = id

\* node_data.get('inputs', {})
InputsOf(node) == IF node.hasInputs THEN node.inputs ELSE <<>>

\* faulty variant: save_output is not looked at
IsOutputNodeAnySave(node) ==
    "filename_prefix" \in DOMAIN InputsOf(node)

\* _detect_output_nodes: nodes with a filename_prefix input whose save_output
\* is not explicitly false, in graph order
IsOutputNode(node) ==
    /\ "filename_prefix" \in DOMAIN InputsOf(node)
    /\ ~ ( /\ "save_output" \in DOMAIN InputsOf(node)
           /\ InputsOf(node)["save_output"] = JFalse )

RECURSIVE DetectFrom(_, _)
DetectFrom(graph, k) ==
    IF k > Len(graph) THEN <<>>
    ELSE (IF IsOutputNode(graph[k]) THEN <<graph[k].id>> ELSE <<>>)
         \o DetectFrom(graph, k + 1)

DetectOutputNodes(graph) == DetectFrom(graph, 1)

\* ------------------------------------------------------------ bindings
\* input_bindings is a dict key -> binding.  A key is kept as the list of
\* its '.'-separated parts (what key.split('.') returns); ids of chain steps
\* and sourceOutputNodeId are kept the same way, so that f"{a}.{b}" is the
\* concatenation of the two lists.
CacheKey(stepId, outputNodeId) == stepId \o outputNodeId

\* cached_relative_path = f"chain_result/{self.execution_id}_{filename}"
CachedRelativePath(executionId, filename) == <<"chain_result", executionId, filename>>

\* self.chain_data['nodes'][i] with Python's indexing (negative from the end)
PyIndexOk(nodes, i) == (0 - Len(nodes)) <= i /\ i < Len(nodes)
PyIndex(nodes, i) == IF i >= 0 THEN nodes[i + 1] ELSE nodes[Len(nodes) + i + 1]

\* the dynamic binding passes the two "continue" guards
DynamicLooksUp(b, nodes) ==
    /\ b.type = "dynamic"
    /\ b.hasIdx /\ b.sourceOutputNodeId # <<>>
    /\ ~ (b.sourceWorkflowIndex >= Len(nodes))

\* self.chain_data['nodes'][source_workflow_index] raises IndexError
BindingRaises(b, nodes) ==
    /\ Len(b.key) = 2
    /\ DynamicLooksUp(b, nodes)
    /\ ~ PyIndexOk(nodes, b.sourceWorkflowIndex)

\* faulty variant: the two halves of the cache key in the other order
DynamicKeySwapped(b, nodes) ==
    CacheKey(b.sourceOutputNodeId, PyIndex(nodes, b.sourceWorkflowIndex).id)

DynamicKey(b, nodes) ==
    CacheKey(PyIndex(nodes, b.sourceWorkflowIndex).id, b.sourceOutputNodeId)

\* faulty variant: a key of more than two parts is taken by its first two
BindingWritesLongKeys(b, graph, nodes, output_cache) ==
    /\ Len(b.key) >= 2
    /\ HasNode(graph, b.key[1])
    /\ \/ b.type = "static"
       \/ /\ DynamicLooksUp(b, nodes)
          /\ PyIndexOk(nodes, b.sourceWorkflowIndex)
          /\ DynamicKey(b, nodes) \in DOMAIN output_cache

\* the binding writes a value into resolved_workflow
BindingWrites(b, graph, nodes, output_cache) ==
    /\ Len(b.key) = 2
    /\ HasNode(graph, b.key[1])
    /\ \/ b.type = "static"
       \/ /\ DynamicLooksUp(b, nodes)
          /\ PyIndexOk(nodes, b.sourceWorkflowIndex)
          /\ DynamicKey(b, nodes) \in DOMAIN output_cache

BoundValue(b, nodes, output_cache) ==
    IF b.type = "static" THEN b.value ELSE output_cache[DynamicKey(b, nodes)]

ResolveNode(node, bindings, graph, nodes, output_cache) ==
    LET bs == {b \in bindings : BindingWrites(b, graph, nodes, output_cache)
                                /\ b.key[1] = node.id}
        old == InputsOf(node)
    IN  IF bs = {} THEN node
        ELSE [id |-> node.id, hasInputs |-> TRUE,
              inputs |-> [f \in (DOMAIN old) \cup {b.key[2] : b \in bs} |->
                  IF \E b \in bs : b.key[2] = f
                  THEN BoundValue(CHOOSE b \in bs : b.key[2] = f, nodes, output_cache)
                  ELSE old[f]]]

\* _resolve_input_bindings: a deep copy of the graph with the bindings applied
\* (keys are distinct, so the order of the dict does not matter)
ResolveInputBindings(graph, bindings, nodes, output_cache) ==
    [raised |-> \E b \in bindings : BindingRaises(b, nodes),
     graph |-> [k \in 1..Len(graph) |->
                   ResolveNode(graph[k], bindings, graph, nodes, output_cache)]]

\* graph[nodeId]['inputs'][field] for the key <<nodeId, field>>; <<>> if the
\* key has not two parts or the graph has no such node or field
FieldOf(graph, key) ==
    IF Len(key) = 2
       /\ \E k \in 1..Len(graph) :
              graph[k].id = key[1] /\ key[2] \in DOMAIN InputsOf(graph[k])
    THEN InputsOf(graph[CHOOSE k \in 1..Len(graph) : graph[k].id = key[1]])[key[2]]
    ELSE <<>>

StaticBinding(key, value) ==
    [key |-> key, type |-> "static", value |-> value, hasIdx |-> FALSE,
     sourceWorkflowIndex |-> 0, sourceOutputNodeId |-> <<>>]

DynamicBinding(key, idx, outId) ==
    [key |-> key, type |-> "dynamic", value |-> <<"">>, hasIdx |-> TRUE,
     sourceWorkflowIndex |-> idx, sourceOutputNodeId |-> outId]

\* -------------------------------------------------- remote events, files
\* files = output.get('gifs') or output.get('images', [])
FilesOf(payload) == IF payload.gifs # <<>> THEN payload.gifs ELSE payload.images

RawOutput(nodeId, file) ==
    [nodeId |-> nodeId, filename |-> file.filename, subfolder |-> file.subfolder]

\* _fetch_outputs_from_history on a 200 answer: for every output node that the
\* history names and that has a file, the first file
RECURSIVE HistoryFrom(_, _, _)
HistoryFrom(history, outIds, k) ==
    IF k > Len(outIds) THEN <<>>
    ELSE (IF outIds[k] \in DOMAIN history /\ FilesOf(history[outIds[k]]) # <<>>
          THEN <<RawOutput(outIds[k], FilesOf(history[outIds[k]])[1])>>
          ELSE <<>>)
         \o HistoryFrom(history, outIds, k + 1)

\* faulty variant: the history fallback reads only 'gifs'
FetchGifsFromHistory(ok, history, outIds) ==
    IF ok
    THEN HistoryFrom([n \in DOMAIN history |-> [history[n] EXCEPT !.images = <<>>]],
                     outIds, 1)
    ELSE <<>>

FetchOutputsFromHistory(ok, history, outIds) ==
    IF ok THEN HistoryFrom(history, outIds, 1) ELSE <<>>

\* _cache_output_files: the outputs that have a filename and whose source
\* file exists and is copied (copied: the set of indices of such outputs)
RECURSIVE CacheFrom(_, _, _, _)
CacheFrom(outputs, copied, executionId, k) ==
    IF k > Len(outputs) THEN <<>>
    ELSE (IF outputs[k].filename # NoneStr /\ k \in copied
          THEN <<[nodeId |-> outputs[k].nodeId,
                  filename |-> outputs[k].filename,
                  subfolder |-> outputs[k].subfolder,
                  cachedPath |-> CachedRelativePath(executionId, outputs[k].filename)]>>
          ELSE <<>>)
         \o CacheFrom(outputs, copied, executionId, k + 1)

CacheOutputFiles(outputs, copied, executionId) == CacheFrom(outputs, copied, executionId, 1)

\* for output in cached_outputs: self.output_cache[f"{node_id}.{nodeId}"] = cachedPath
RECURSIVE UpdateCache(_, _, _, _)
UpdateCache(output_cache, cached, stepId, k) ==
    IF k > Len(cached) THEN output_cache
    ELSE UpdateCache((CacheKey(stepId, <<cached[k].nodeId>>) :> cached[k].cachedPath)
                        @@ output_cache,
                     cached, stepId, k + 1)

\* ------------------------------------------------------------- state
VARIABLES
    chain,              \* chain_data['nodes'] of each executor: its steps
    flag,               \* ChainExecutor._interrupt_requested (class variable)
    running,            \* the coroutine that owns the event loop, or NoProc
    pc,                 \* where each coroutine is
    op,                 \* the ChainProgressManager call each coroutine is in
    ex,                 \* the ChainExecutor instances' fields
    mon,                \* locals of _execute_workflow_node / _monitor_workflow_execution
    remote,             \* what the remote job server may answer: payloads, histories
    posted,             \* the job graphs POSTed to the remote server's /prompt
    iresult,            \* what the last interrupt_execution() of each caller returned
    lock,               \* ChainProgressManager.lock: its holder, or NoProc
    waitq,              \* the coroutines waiting for the lock, first come first
    clients,            \* ChainProgressManager.clients
    current_execution,  \* ChainProgressManager.current_execution
    bcast,              \* the message being sent and the clients still to be sent to
    log,                \* the messages handed to _broadcast, in order
    lastRecv,           \* the last message each observer's socket received
    sub,                \* history: per observer, the length of log when it was
                        \* registered and what its socket received since (0 for
                        \* add_client's push, the position in log of a broadcast)
    seen                \* history: interrupt() calls met by each execution

vars == <<chain, flag, running, pc, op, ex, mon, remote, posted, iresult,
          lock, waitq, clients, current_execution, bcast, log, lastRecv, sub,
          seen>>

\* the places where a coroutine waits and the event loop runs another one
Suspended == {"off", "idle", "done", "bc_wait", "bc_send", "submitting",
              "connecting", "mon_recv", "history", "sleeping", "posting",
              "grace", "closed", "open"}

\* ------------------------------------------------ ChainProgressManager
NoExecution ==
    [has |-> FALSE, executionId |-> NoneStr, currentWorkflowIndex |-> NoneIdx,
     workflows |-> <<>>]

\* the idle message of add_client, send_current_state, get_current_state
IdleMessage ==
    [type |-> "chain_progress", isExecuting |-> FALSE, executionId |-> NoneStr,
     currentWorkflowIndex |-> NoneIdx, workflows |-> <<>>,
     completed |-> FALSE, success |-> FALSE, error |-> ""]

NoMessage == [IdleMessage EXCEPT !.type = "none"]

\* self.current_execution as a message (it has no 'completed' key)
ProgressMessage(cur) ==
    [type |-> "chain_progress", isExecuting |-> TRUE, executionId |-> cur.executionId,
     currentWorkflowIndex |-> cur.currentWorkflowIndex, workflows |-> cur.workflows,
     completed |-> FALSE, success |-> FALSE, error |-> ""]

\* final_message of complete_chain_execution
\* faulty variant: the final message copies the snapshot's currentWorkflowIndex
FinalMessageKeepsIndex(cur, success, error) ==
    [type |-> "chain_progress", isExecuting |-> FALSE, executionId |-> cur.executionId,
     currentWorkflowIndex |-> cur.currentWorkflowIndex, workflows |-> cur.workflows,
     completed |-> TRUE, success |-> success, error |-> error]

FinalMessage(cur, success, error) ==
    [type |-> "chain_progress", isExecuting |-> FALSE, executionId |-> cur.executionId,
     currentWorkflowIndex |-> NoneIdx, workflows |-> cur.workflows,
     completed |-> TRUE, success |-> success, error |-> error]

\* get_current_state / the message of add_client and send_current_state
CurrentState(cur) == IF cur.has THEN ProgressMessage(cur) ELSE IdleMessage

\* start_chain_execution: the snapshot it stores
StartSnapshot(executionId, nodes) ==
    [has |-> TRUE, executionId |-> executionId, currentWorkflowIndex |-> 0,
     workflows |-> [k \in 1..Len(nodes) |->
                       [id |-> nodes[k].id, status |-> "pending", error |-> ""]]]

\* faulty variant: 'completed' moves currentWorkflowIndex past the last step
UpdatedSnapshotAlwaysAdvances(cur, index, status, error) ==
    LET n == Len(cur.workflows)
        wfs == IF 0 <= index /\ index < n
               THEN [cur.workflows EXCEPT ![index + 1] =
                        [@ EXCEPT !.status = status,
                                  !.error = IF error # "" THEN error ELSE @]]
               ELSE cur.workflows
        idx == IF status = "running" THEN index
               ELSE IF status = "completed" THEN index + 1
               ELSE cur.currentWorkflowIndex
    IN  [cur EXCEPT !.workflows = wfs, !.currentWorkflowIndex = idx]

\* update_workflow_status on a stored snapshot
UpdatedSnapshot(cur, index, status, error) ==
    LET n == Len(cur.workflows)
        wfs == IF 0 <= index /\ index < n
               THEN [cur.workflows EXCEPT ![index + 1] =
                        [@ EXCEPT !.status = status,
                                  !.error = IF error # "" THEN error ELSE @]]
               ELSE cur.workflows
        idx == IF status = "running" THEN index
               ELSE IF status = "completed" /\ index < n - 1 THEN index + 1
               ELSE cur.currentWorkflowIndex
    IN  [cur EXCEPT !.workflows = wfs, !.currentWorkflowIndex = idx]

NoOp ==
    [kind |-> "none", index |-> 0, status |-> "", success |-> FALSE, error |-> "",
     ret |-> ""]
StartOp(ret) == [NoOp EXCEPT !.kind = "start", !.ret = ret]
UpdateOp(index, status, error, ret) ==
    [NoOp EXCEPT !.kind = "update", !.index = index, !.status = status,
                 !.error = error, !.ret = ret]
CompleteOp(success, error, ret) ==
    [NoOp EXCEPT !.kind = "complete", !.success = success, !.error = error, !.ret = ret]
AddOp(ret) == [NoOp EXCEPT !.kind = "add", !.ret = ret]
RemoveOp(ret) == [NoOp EXCEPT !.kind = "remove", !.ret = ret]
StateOp(ret) == [NoOp EXCEPT !.kind = "state", !.ret = ret]

NoBroadcast == [msg |-> NoMessage, todo |-> {}, disc |-> {}]

\* faulty variant: complete_chain_execution without its "if not
\* self.current_execution: return"
BodyCompletesIdle(p) ==
    LET o == op[p]
        cur == current_execution
        base == [cur |-> cur, clients |-> clients, msg |-> NoMessage, todo |-> {},
                 broadcast |-> FALSE]
    IN  CASE o.kind = "start" ->
                LET c == StartSnapshot(ex[p].executionId, chain[p])
                IN  [base EXCEPT !.cur = c, !.msg = ProgressMessage(c),
                                 !.todo = clients, !.broadcast = TRUE]
          [] o.kind = "update" ->
                IF ~ cur.has THEN base
                ELSE LET c == UpdatedSnapshot(cur, o.index, o.status, o.error)
                     IN  [base EXCEPT !.cur = c, !.msg = ProgressMessage(c),
                                      !.todo = clients, !.broadcast = TRUE]
          [] o.kind = "complete" ->
                [base EXCEPT !.msg = FinalMessage(cur, o.success, o.error),
                             !.todo = clients, !.broadcast = TRUE]
          [] o.kind = "add" ->
                [base EXCEPT !.clients = clients \cup {p},
                             !.msg = CurrentState(cur), !.todo = {p}]
          [] o.kind = "state" ->
                [base EXCEPT !.msg = CurrentState(cur), !.todo = {p}]
          [] o.kind = "remove" ->
                [base EXCEPT !.clients = clients \ {p}]

\* faulty variant: start_chain_execution returns at once while a snapshot is
\* stored
BodyStartRejected(p) ==
    LET o == op[p]
        cur == current_execution
        base == [cur |-> cur, clients |-> clients, msg |-> NoMessage, todo |-> {},
                 broadcast |-> FALSE]
    IN  CASE o.kind = "start" ->
                IF cur.has THEN base
                ELSE LET c == StartSnapshot(ex[p].executionId, chain[p])
                     IN  [base EXCEPT !.cur = c, !.msg = ProgressMessage(c),
                                      !.todo = clients, !.broadcast = TRUE]
          [] o.kind = "update" ->
                IF ~ cur.has THEN base
                ELSE LET c == UpdatedSnapshot(cur, o.index, o.status, o.error)
                     IN  [base EXCEPT !.cur = c, !.msg = ProgressMessage(c),
                                      !.todo = clients, !.broadcast = TRUE]
          [] o.kind = "complete" ->
                IF ~ cur.has THEN base
                ELSE [base EXCEPT !.msg = FinalMessage(cur, o.success, o.error),
                                  !.todo = clients, !.broadcast = TRUE]
          [] o.kind = "add" ->
                [base EXCEPT !.clients = clients \cup {p},
                             !.msg = CurrentState(cur), !.todo = {p}]
          [] o.kind = "state" ->
                [base EXCEPT !.msg = CurrentState(cur), !.todo = {p}]
          [] o.kind = "remove" ->
                [base EXCEPT !.clients = clients \ {p}]

\* What the body of the call does under the lock up to its first send:
\* the snapshot and client set it leaves, the message it sends and to whom,
\* and whether it went through _broadcast.
Body(p) ==
    LET o == op[p]
        cur == current_execution
        base == [cur |-> cur, clients |-> clients, msg |-> NoMessage, todo |-> {},
                 broadcast |-> FALSE]
    IN  CASE o.kind = "start" ->
                LET c == StartSnapshot(ex[p].executionId, chain[p])
                IN  [base EXCEPT !.cur = c, !.msg = ProgressMessage(c),
                                 !.todo = clients, !.broadcast = TRUE]
          [] o.kind = "update" ->
                IF ~ cur.has THEN base
                ELSE LET c == UpdatedSnapshot(cur, o.index, o.status, o.error)
                     IN  [base EXCEPT !.cur = c, !.msg = ProgressMessage(c),
                                      !.todo = clients, !.broadcast = TRUE]
          [] o.kind = "complete" ->
                IF ~ cur.has THEN base
                ELSE [base EXCEPT !.msg = FinalMessage(cur, o.success, o.error),
                                  !.todo = clients, !.broadcast = TRUE]
          [] o.kind = "add" ->
                [base EXCEPT !.clients = clients \cup {p},
                             !.msg = CurrentState(cur), !.todo = {p}]
          [] o.kind = "state" ->
                [base EXCEPT !.msg = CurrentState(cur), !.todo = {p}]
          [] o.kind = "remove" ->
                [base EXCEPT !.clients = clients \ {p}]

\* release of the lock: it passes to the first waiter
Released == IF waitq = <<>> THEN NoProc ELSE Head(waitq)
RestQ == IF waitq = <<>> THEN <<>> ELSE Tail(waitq)

\* faulty variant: complete_chain_execution does not clear the snapshot
FinishKeepsSnapshot(p, cur, cls, disc) ==
    /\ clients' = cls \ disc
    /\ current_execution' = cur
    /\ lock' = Released
    /\ waitq' = RestQ
    /\ bcast' = NoBroadcast
    /\ op' = [op EXCEPT ![p] = NoOp]
    /\ pc' = [pc EXCEPT ![p] = op[p].ret]
    /\ running' = IF op[p].ret \in Suspended THEN NoProc ELSE p

\* The call returns: failed clients are dropped, complete_chain_execution
\* clears the snapshot, the lock is released and the caller goes on.
Finish(p, cur, cls, disc) ==
    /\ clients' = cls \ disc
    /\ current_execution' = IF op[p].kind = "complete" THEN NoExecution ELSE cur
    /\ lock' = Released
    /\ waitq' = RestQ
    /\ bcast' = NoBroadcast
    /\ op' = [op EXCEPT ![p] = NoOp]
    /\ pc' = [pc EXCEPT ![p] = op[p].ret]
    /\ running' = IF op[p].ret \in Suspended THEN NoProc ELSE p

\* The caller has the lock: the body runs up to its first send.
Enter(p) ==
    LET b == Body(p)
    IN  /\ log' = IF b.broadcast THEN Append(log, b.msg) ELSE log
        /\ IF b.todo = {}
           THEN Finish(p, b.cur, b.clients, {})
           ELSE /\ current_execution' = b.cur
                /\ clients' = b.clients
                /\ lock' = p
                /\ bcast' = [msg |-> b.msg, todo |-> b.todo, disc |-> {}]
                /\ pc' = [pc EXCEPT ![p] = "bc_send"]
                /\ running' = NoProc
                /\ UNCHANGED <<op, waitq>>
        /\ sub' = IF op[p].kind = "add" /\ sub[p].track
                  THEN [sub EXCEPT ![p].since = Len(log), ![p].got = <<>>]
                  ELSE sub
        /\ UNCHANGED <<chain, flag, ex, mon, remote, posted, iresult, lastRecv, seen>>

\* async with self.lock: taken at once when free, else the caller queues
BcEnter(p) ==
    /\ pc[p] = "bc_call" /\ running = p
    /\ IF lock = NoProc
       THEN Enter(p)
       ELSE /\ pc' = [pc EXCEPT ![p] = "bc_wait"]
            /\ waitq' = Append(waitq, p)
            /\ running' = NoProc
            /\ UNCHANGED <<chain, flag, op, ex, mon, remote, posted, iresult, seen, lock, clients,
                           current_execution, bcast, log, lastRecv, sub>>

\* the lock was passed to this waiter
BcGranted(p) ==
    /\ pc[p] = "bc_wait" /\ lock = p /\ running = NoProc
    /\ Enter(p)

\* track: the history of this observer is recorded (in ObsSpec)
NoSub(track) == [track |-> track, since |-> 0, got |-> <<>>]

\* the websocket of this handler is still open: the handler has not left its
\* receive loop for the finally clause
Connected(c) == pc[c] # "closed" /\ op[c].kind # "remove"

\* faulty variant: _broadcast only logs a failed send, as _send_to_client does
BcSendKeepsFailed(p, c, ok) ==
    /\ pc[p] = "bc_send" /\ lock = p /\ running = NoProc
    /\ c \in bcast.todo
    /\ lastRecv' = IF ok /\ Connected(c) THEN [lastRecv EXCEPT ![c] = bcast.msg]
                   ELSE lastRecv
    /\ sub' = IF ok /\ Connected(c) /\ op[p].kind # "state" /\ sub[c].track
              THEN [sub EXCEPT ![c].got =
                       Append(@, IF op[p].kind = "add" THEN 0 ELSE Len(log))]
              ELSE sub
    /\ LET todo == bcast.todo \ {c}
       IN  IF todo = {}
           THEN Finish(p, current_execution, clients, {})
           ELSE /\ bcast' = [bcast EXCEPT !.todo = todo]
                /\ UNCHANGED <<running, pc, op, lock, waitq, clients, current_execution>>
    /\ UNCHANGED <<chain, flag, ex, mon, remote, posted, iresult, log, seen>>

\* faulty variant: the exception of a failed send ends _broadcast's loop: the
\* client is dropped and the clients not yet sent to are skipped
BcSendAborts(p, c, ok) ==
    /\ pc[p] = "bc_send" /\ lock = p /\ running = NoProc
    /\ c \in bcast.todo
    /\ lastRecv' = IF ok /\ Connected(c) THEN [lastRecv EXCEPT ![c] = bcast.msg]
                   ELSE lastRecv
    /\ sub' = IF ok /\ Connected(c) /\ op[p].kind # "state" /\ sub[c].track
              THEN [sub EXCEPT ![c].got =
                       Append(@, IF op[p].kind = "add" THEN 0 ELSE Len(log))]
              ELSE sub
    /\ LET failed == ~ ok /\ op[p].kind \in {"start", "update", "complete"}
           disc == IF failed THEN bcast.disc \cup {c} ELSE bcast.disc
           todo == bcast.todo \ {c}
       IN  IF todo = {} \/ failed
           THEN Finish(p, current_execution, clients, disc)
           ELSE /\ bcast' = [bcast EXCEPT !.todo = todo, !.disc = disc]
                /\ UNCHANGED <<running, pc, op, lock, waitq, clients, current_execution>>
    /\ UNCHANGED <<chain, flag, ex, mon, remote, posted, iresult, log, seen>>

\* await client.send_str(message_json) to one client: it arrives (if the
\* socket is still open) or raises.
\* _broadcast collects the clients whose send raised; _send_to_client only logs.
BcSend(p, c, ok) ==
    /\ pc[p] = "bc_send" /\ lock = p /\ running = NoProc
    /\ c \in bcast.todo
    /\ lastRecv' = IF ok /\ Connected(c) THEN [lastRecv EXCEPT ![c] = bcast.msg]
                   ELSE lastRecv
    /\ sub' = IF ok /\ Connected(c) /\ op[p].kind # "state" /\ sub[c].track
              THEN [sub EXCEPT ![c].got =
                       Append(@, IF op[p].kind = "add" THEN 0 ELSE Len(log))]
              ELSE sub
    /\ LET disc == IF ~ ok /\ op[p].kind \in {"start", "update", "complete"}
                   THEN bcast.disc \cup {c} ELSE bcast.disc
           todo == bcast.todo \ {c}
       IN  IF todo = {}
           THEN Finish(p, current_execution, clients, disc)
           ELSE /\ bcast' = [bcast EXCEPT !.todo = todo, !.disc = disc]
                /\ UNCHANGED <<running, pc, op, lock, waitq, clients, current_execution>>
    /\ UNCHANGED <<chain, flag, ex, mon, remote, posted, iresult, log, seen>>

\* a coroutine calls into the ChainProgressManager
Call(p, o) ==
    /\ op' = [op EXCEPT ![p] = o]
    /\ pc' = [pc EXCEPT ![p] = "bc_call"]
    /\ running' = p

bcVars == <<lock, waitq, clients, current_execution, bcast, log, lastRecv, sub>>

\* ------------------------------------------------------- ChainExecutor
\* __init__
NewExecutor(executionId) ==
    [executionId |-> executionId, status |-> "pending", current_node_index |-> 0,
     i |-> 0, node_results |-> <<>>, output_cache |-> <<>>,
     result |-> [success |-> FALSE, error |-> ""]]

NoMonitor ==
    [graph |-> <<>>, outIds |-> <<>>, outputs |-> <<>>, completed_nodes |-> {},
     execution_failed |-> FALSE, execution_cached |-> FALSE, expired |-> FALSE]

NodeResult(success, stepId, error, outputs) ==
    [success |-> success, nodeId |-> stepId, error |-> error, outputs |-> outputs]

\* faulty variant: execute() without the "if not nodes" return
ExecStartNoEmptyCheck(e) ==
    /\ pc[e] = "idle" /\ running = NoProc
    /\ ex' = [ex EXCEPT ![e].status = "running"]
    /\ Call(e, StartOp("ensure"))
    /\ seen' = [seen EXCEPT ![e].overlap = \E i \in Intrs : pc[i] \notin {"idle", "off"}]
    /\ UNCHANGED <<chain, flag, mon, remote, posted, iresult>>
    /\ UNCHANGED bcVars

\* execute(), up to the first await: status, the empty-chain return, else
\* start_chain_execution
ExecStart(e) ==
    /\ pc[e] = "idle" /\ running = NoProc
    /\ IF chain[e] = <<>>
       THEN /\ ex' = [ex EXCEPT ![e].status = "running",
                                ![e].result = [success |-> FALSE,
                                               error |-> "No workflow nodes in chain"]]
            /\ pc' = [pc EXCEPT ![e] = "done"]
            /\ UNCHANGED <<op, running>>
       ELSE /\ ex' = [ex EXCEPT ![e].status = "running"]
            /\ Call(e, StartOp("ensure"))
    /\ seen' = [seen EXCEPT ![e].overlap = \E i \in Intrs : pc[i] \notin {"idle", "off"}]
    /\ UNCHANGED <<chain, flag, mon, remote, posted, iresult>>
    /\ UNCHANGED bcVars

\* _ensure_chain_result_folder: os.makedirs succeeds, or raises into execute()'s
\* except clause
ExecEnsureFolder(e, ok) ==
    /\ pc[e] = "ensure" /\ running = e
    /\ IF ok
       THEN /\ pc' = [pc EXCEPT ![e] = "loop"]
            /\ UNCHANGED <<ex, op, running>>
       ELSE /\ ex' = [ex EXCEPT ![e].status = "failed",
                                ![e].result = [success |-> FALSE, error |-> "exception"]]
            /\ Call(e, CompleteOp(FALSE, "exception", "done"))
    /\ UNCHANGED <<chain, flag, mon, remote, posted, iresult, seen>>
    /\ UNCHANGED bcVars

\* faulty variant: the interrupt branch sets the status but does not return
ExecLoopTopNoReturn(e) ==
    /\ pc[e] = "loop" /\ running = e
    /\ LET i == ex[e].i
       IN  IF i >= Len(chain[e])
           THEN /\ ex' = [ex EXCEPT ![e].status = "completed",
                                    ![e].result = [success |-> TRUE, error |-> ""]]
                /\ Call(e, CompleteOp(TRUE, "", "done"))
           ELSE /\ ex' = [ex EXCEPT ![e].current_node_index = i,
                                    ![e].status = IF flag THEN "interrupted" ELSE @]
                /\ Call(e, UpdateOp(i, "running", "", "node"))
    /\ UNCHANGED <<chain, flag, mon, remote, posted, iresult, seen>>
    /\ UNCHANGED bcVars

\* top of "for index, node in enumerate(nodes)": the loop ends, or the
\* interrupt flag is seen, or the step starts
ExecLoopTop(e) ==
    /\ pc[e] = "loop" /\ running = e
    /\ LET i == ex[e].i
       IN  IF i >= Len(chain[e])
           THEN /\ ex' = [ex EXCEPT ![e].status = "completed",
                                    ![e].result = [success |-> TRUE, error |-> ""]]
                /\ Call(e, CompleteOp(TRUE, "", "done"))
           ELSE IF flag
           THEN /\ ex' = [ex EXCEPT ![e].status = "interrupted",
                                    ![e].result = [success |-> FALSE,
                                                   error |-> "interrupted"]]
                /\ Call(e, CompleteOp(FALSE, "interrupted", "done"))
           ELSE /\ ex' = [ex EXCEPT ![e].current_node_index = i]
                /\ Call(e, UpdateOp(i, "running", "", "node"))
    /\ UNCHANGED <<chain, flag, mon, remote, posted, iresult, seen>>
    /\ UNCHANGED bcVars

\* faulty variant: a failed step is not broadcast failed: execute() goes straight to
\* complete_chain_execution
NodeDoneNoFailedUpdate(e, nres, cache) ==
    /\ ex' = [ex EXCEPT ![e].node_results = Append(@, nres),
                        ![e].output_cache = cache,
                        ![e].status = IF nres.success THEN @ ELSE "failed",
                        ![e].result = IF nres.success THEN @
                                      ELSE [success |-> FALSE, error |-> "stepfail"]]
    /\ mon' = [mon EXCEPT ![e] = NoMonitor]
    /\ Call(e, IF nres.success
               THEN UpdateOp(ex[e].i, "completed", "", "completed")
               ELSE CompleteOp(FALSE, "stepfail", "done"))

\* faulty variant: a successful step is not broadcast completed
NodeDoneNoCompletedUpdate(e, nres, cache) ==
    /\ ex' = [ex EXCEPT ![e].node_results = Append(@, nres),
                        ![e].output_cache = cache,
                        ![e].status = IF nres.success THEN @ ELSE "failed",
                        ![e].result = IF nres.success THEN @
                                      ELSE [success |-> FALSE, error |-> "stepfail"]]
    /\ mon' = [mon EXCEPT ![e] = NoMonitor]
    /\ IF nres.success
       THEN pc' = [pc EXCEPT ![e] = "completed"] /\ UNCHANGED <<op, running>>
       ELSE Call(e, UpdateOp(ex[e].i, "failed", nres.error, "failed"))

\* _execute_workflow_node returns (its locals are gone); back in execute()
\* with the step's result: append it, then broadcast the step failed or
\* completed
NodeDone(e, nres, cache) ==
    /\ ex' = [ex EXCEPT ![e].node_results = Append(@, nres),
                        ![e].output_cache = cache,
                        ![e].status = IF nres.success THEN @ ELSE "failed",
                        ![e].result = IF nres.success THEN @
                                      ELSE [success |-> FALSE, error |-> "stepfail"]]
    /\ mon' = [mon EXCEPT ![e] = NoMonitor]
    /\ Call(e, IF nres.success
               THEN UpdateOp(ex[e].i, "completed", "", "completed")
               ELSE UpdateOp(ex[e].i, "failed", nres.error, "failed"))

NodeFails(e, error) ==
    NodeDone(e, NodeResult(FALSE, chain[e][ex[e].i + 1].id, error, <<>>),
             ex[e].output_cache)

\* faulty variant: the bindings are written into the step's own graph
\* (resolved_workflow = api_workflow, no deep copy)
ExecNodeInPlace(e) ==
    /\ pc[e] = "node" /\ running = e
    /\ LET node == chain[e][ex[e].i + 1]
           r == ResolveInputBindings(node.graph, node.bindings, chain[e],
                                     ex[e].output_cache)
       IN  IF node.graph = <<>>
           THEN NodeFails(e, "No API workflow format found") /\ UNCHANGED <<posted, chain>>
           ELSE IF r.raised
           THEN NodeFails(e, "IndexError") /\ UNCHANGED <<posted, chain>>
           ELSE /\ mon' = [mon EXCEPT ![e] = [NoMonitor EXCEPT !.graph = r.graph]]
                /\ chain' = [chain EXCEPT ![e][ex[e].i + 1].graph = r.graph]
                /\ posted' = Append(posted, [executionId |-> ex[e].executionId,
                                             index |-> ex[e].i, graph |-> r.graph])
                /\ pc' = [pc EXCEPT ![e] = "submitting"]
                /\ running' = NoProc
                /\ UNCHANGED <<ex, op>>
    /\ UNCHANGED <<flag, remote, iresult, seen>>
    /\ UNCHANGED bcVars

\* _execute_workflow_node up to the POST of _submit_workflow
ExecNode(e) ==
    /\ pc[e] = "node" /\ running = e
    /\ LET node == chain[e][ex[e].i + 1]
           r == ResolveInputBindings(node.graph, node.bindings, chain[e],
                                     ex[e].output_cache)
       IN  IF node.graph = <<>>
           THEN NodeFails(e, "No API workflow format found") /\ UNCHANGED posted
           ELSE IF r.raised
           THEN NodeFails(e, "IndexError") /\ UNCHANGED posted
           ELSE /\ mon' = [mon EXCEPT ![e] = [NoMonitor EXCEPT !.graph = r.graph]]
                /\ posted' = Append(posted, [executionId |-> ex[e].executionId,
                                             index |-> ex[e].i, graph |-> r.graph])
                /\ pc' = [pc EXCEPT ![e] = "submitting"]
                /\ running' = NoProc
                /\ UNCHANGED <<ex, op>>
    /\ UNCHANGED <<chain, flag, remote, iresult, seen>>
    /\ UNCHANGED bcVars

\* the POST returns a prompt_id, or fails (not 200, transport error); then
\* _monitor_workflow_execution up to websockets.connect
SubmitReturn(e, ok) ==
    /\ pc[e] = "submitting" /\ running = NoProc
    /\ IF ~ ok
       THEN NodeFails(e, "Failed to submit workflow")
       ELSE IF DetectOutputNodes(mon[e].graph) = <<>>
       THEN NodeFails(e, "No outputs detected or execution failed")
       ELSE /\ mon' = [mon EXCEPT ![e].outIds = DetectOutputNodes(mon[e].graph)]
            /\ pc' = [pc EXCEPT ![e] = "connecting"]
            /\ UNCHANGED <<ex, op, running>>
    /\ UNCHANGED <<chain, flag, remote, posted, iresult, seen>>
    /\ UNCHANGED bcVars

\* -------------------------------------------- _monitor_workflow_execution
NoPayload == [gifs |-> <<>>, images |-> <<>>]
Event(type, prompt_id, node, payload) ==
    [type |-> type, prompt_id |-> prompt_id, node |-> node, payload |-> payload]

\* the messages the event stream may deliver: of every type, for the
\* monitored job ("mine") or another one, undecodable or of an unknown type
RemoteEvents ==
    {Event(t, j, NoneStr, NoPayload) :
        t \in {"execution_error", "execution_cached", "execution_success", "other"},
        j \in {"mine", "other"}}
    \cup {Event("executing", j, n, NoPayload) :
        j \in {"mine", "other"}, n \in remote.nodes \cup {NoneStr}}
    \cup {Event("executed", j, n, f) :
        j \in {"mine", "other"}, n \in remote.nodes, f \in remote.payloads}
    \cup {Event("undecodable", "other", NoneStr, NoPayload)}

AllReported(m) == Cardinality(m.completed_nodes) >= Len(m.outIds)

\* faulty variant: the job id of a message is not compared with prompt_id
ProcessEventAnyJob(m, ev) ==
    LET same == [m |-> m, brk |-> FALSE]
    IN  CASE ev.type = "execution_error" ->
                [m |-> [m EXCEPT !.execution_failed = TRUE], brk |-> TRUE]
          [] ev.type = "executed" ->
                IF ev.node \in Range(m.outIds)
                THEN LET files == FilesOf(ev.payload)
                         m2 == [m EXCEPT
                                  !.outputs = IF files # <<>>
                                              THEN Append(@, RawOutput(ev.node, files[1]))
                                              ELSE @,
                                  !.completed_nodes = @ \cup {ev.node}]
                     IN  [m |-> m2, brk |-> AllReported(m2)]
                ELSE same
          [] ev.type = "execution_cached" ->
                [m |-> [m EXCEPT !.execution_cached = TRUE], brk |-> FALSE]
          [] ev.type = "execution_success" ->
                [m |-> m, brk |-> AllReported(m)]
          [] ev.type = "executing" ->
                [m |-> m,
                 brk |-> ev.node = NoneStr /\ (m.execution_cached \/ AllReported(m))]
          [] OTHER -> same

\* faulty variant: execution_success of the monitored job always ends the loop
ProcessEventSuccessStops(m, ev) ==
    LET mine == ev.prompt_id = "mine"
        same == [m |-> m, brk |-> FALSE]
    IN  CASE ev.type = "execution_error" ->
                IF mine THEN [m |-> [m EXCEPT !.execution_failed = TRUE], brk |-> TRUE]
                ELSE same
          [] ev.type = "executed" ->
                IF mine /\ ev.node \in Range(m.outIds)
                THEN LET files == FilesOf(ev.payload)
                         m2 == [m EXCEPT
                                  !.outputs = IF files # <<>>
                                              THEN Append(@, RawOutput(ev.node, files[1]))
                                              ELSE @,
                                  !.completed_nodes = @ \cup {ev.node}]
                     IN  [m |-> m2, brk |-> AllReported(m2)]
                ELSE same
          [] ev.type = "execution_cached" ->
                IF mine THEN [m |-> [m EXCEPT !.execution_cached = TRUE], brk |-> FALSE]
                ELSE same
          [] ev.type = "execution_success" ->
                [m |-> m, brk |-> mine]
          [] ev.type = "executing" ->
                [m |-> m,
                 brk |-> ev.node = NoneStr /\ mine
                         /\ (m.execution_cached \/ AllReported(m))]
          [] OTHER -> same

\* one pass of the receive loop's body on a message: the new locals and
\* whether the loop breaks
ProcessEvent(m, ev) ==
    LET mine == ev.prompt_id = "mine"
        same == [m |-> m, brk |-> FALSE]
    IN  CASE ev.type = "execution_error" ->
                IF mine THEN [m |-> [m EXCEPT !.execution_failed = TRUE], brk |-> TRUE]
                ELSE same
          [] ev.type = "executed" ->
                IF mine /\ ev.node \in Range(m.outIds)
                THEN LET files == FilesOf(ev.payload)
                         m2 == [m EXCEPT
                                  !.outputs = IF files # <<>>
                                              THEN Append(@, RawOutput(ev.node, files[1]))
                                              ELSE @,
                                  !.completed_nodes = @ \cup {ev.node}]
                     IN  [m |-> m2, brk |-> AllReported(m2)]
                ELSE same
          [] ev.type = "execution_cached" ->
                IF mine THEN [m |-> [m EXCEPT !.execution_cached = TRUE], brk |-> FALSE]
                ELSE same
          [] ev.type = "execution_success" ->
                [m |-> m, brk |-> mine /\ AllReported(m)]
          [] ev.type = "executing" ->
                [m |-> m,
                 brk |-> ev.node = NoneStr /\ mine
                         /\ (m.execution_cached \/ AllReported(m))]
          [] OTHER -> same

\* _monitor_workflow_execution returns outs to _execute_workflow_node:
\* no outputs fail the step, else the files are cached next
MonitorEnds(e, m, outs) ==
    IF outs = <<>>
    THEN NodeFails(e, "No outputs detected or execution failed")
    ELSE /\ mon' = [mon EXCEPT ![e] = [m EXCEPT !.outputs = outs]]
         /\ pc' = [pc EXCEPT ![e] = "caching"]
         /\ running' = e
         /\ UNCHANGED <<ex, op>>

\* faulty variant: the code after the loop does not test execution_failed
LeaveLoopIgnoresFailed(e, m) ==
    IF m.expired
    THEN MonitorEnds(e, m, <<>>)
    ELSE IF m.execution_cached /\ Len(m.outputs) < Len(m.outIds)
    THEN /\ mon' = [mon EXCEPT ![e] = m]
         /\ pc' = [pc EXCEPT ![e] = "history"]
         /\ UNCHANGED <<ex, op, running>>
    ELSE MonitorEnds(e, m, m.outputs)

\* the code after the receive loop
LeaveLoop(e, m) ==
    IF m.execution_failed \/ m.expired
    THEN MonitorEnds(e, m, <<>>)
    ELSE IF m.execution_cached /\ Len(m.outputs) < Len(m.outIds)
    THEN /\ mon' = [mon EXCEPT ![e] = m]
         /\ pc' = [pc EXCEPT ![e] = "history"]
         /\ UNCHANGED <<ex, op, running>>
    ELSE MonitorEnds(e, m, m.outputs)

\* websockets.connect succeeds or raises
MonConnect(e, ok) ==
    /\ pc[e] = "connecting" /\ running = NoProc
    /\ IF ok
       THEN /\ pc' = [pc EXCEPT ![e] = "mon_recv"]
            /\ UNCHANGED <<ex, op, running, mon>>
       ELSE MonitorEnds(e, mon[e], <<>>)
    /\ UNCHANGED <<chain, flag, remote, posted, iresult, seen>>
    /\ UNCHANGED bcVars

\* websocket.recv() returns a message; the loop breaks, or goes on while the
\* deadline has not passed
MonRecv(e, ev) ==
    /\ pc[e] = "mon_recv" /\ running = NoProc
    /\ LET r == ProcessEvent(mon[e], ev)
       IN  /\ Len(r.m.outputs) <= MaxOutputs
           /\ IF r.brk \/ mon[e].expired
              THEN LeaveLoop(e, r.m)
              ELSE /\ mon' = [mon EXCEPT ![e] = r.m]
                   /\ UNCHANGED <<ex, op, running, pc>>
           /\ seen' = [seen EXCEPT ![e].lost =
                           @ \/ (r.m.execution_failed /\ mon[e].outputs # <<>>)]
    /\ UNCHANGED <<chain, flag, remote, posted, iresult>>
    /\ UNCHANGED bcVars

\* the 600 s of the loop pass while it waits in recv()
MonTick(e) ==
    /\ pc[e] = "mon_recv" /\ running = NoProc /\ ~ mon[e].expired
    /\ mon' = [mon EXCEPT ![e].expired = TRUE]
    /\ UNCHANGED <<chain, flag, running, pc, op, ex, remote, posted, iresult, seen>>
    /\ UNCHANGED bcVars

\* faulty variant: recv() has no timeout: while no message arrives the loop
\* condition is not tested
MonDeadlineNever(e) ==
    /\ pc[e] = "mon_recv" /\ running = NoProc /\ mon[e].expired
    /\ UNCHANGED vars

\* recv() times out after 5 s (continue) and the loop condition is false
MonDeadline(e) ==
    /\ pc[e] = "mon_recv" /\ running = NoProc /\ mon[e].expired
    /\ LeaveLoop(e, mon[e])
    /\ UNCHANGED <<chain, flag, remote, posted, iresult, seen>>
    /\ UNCHANGED bcVars

\* recv() raises (the connection closed): the outer except returns []
MonStreamError(e) ==
    /\ pc[e] = "mon_recv" /\ running = NoProc
    /\ MonitorEnds(e, mon[e], <<>>)
    /\ UNCHANGED <<chain, flag, remote, posted, iresult, seen>>
    /\ UNCHANGED bcVars

\* the history query answers (ok: status 200 with this history), or fails
HistoryReturn(e, ok, history) ==
    /\ pc[e] = "history" /\ running = NoProc
    /\ MonitorEnds(e, mon[e],
                   mon[e].outputs \o FetchOutputsFromHistory(ok, history, mon[e].outIds))
    /\ UNCHANGED <<chain, flag, remote, posted, iresult, seen>>
    /\ UNCHANGED bcVars

\* faulty variant: a step of which a file was not cached is failed, after the
\* output cache was filled
ExecCachePartialFails(e, copied) ==
    /\ pc[e] = "caching" /\ running = e
    /\ LET stepId == chain[e][ex[e].i + 1].id
           cached == CacheOutputFiles(mon[e].outputs, {1}, ex[e].executionId)
       IN  NodeDone(e, NodeResult(copied # {}, stepId,
                                  IF copied # {} THEN "" ELSE "copy failed",
                                  IF copied # {} THEN cached ELSE <<>>),
                    UpdateCache(ex[e].output_cache, cached, stepId, 1))
    /\ seen' = [seen EXCEPT ![e].viaHistory =
                    mon[e].execution_cached /\ mon[e].completed_nodes = {}]
    /\ UNCHANGED <<chain, flag, remote, posted, iresult>>
    /\ UNCHANGED bcVars

\* faulty variant: a step of which no file was cached is failed
ExecCacheFailsEmpty(e, copied) ==
    /\ pc[e] = "caching" /\ running = e
    /\ LET stepId == chain[e][ex[e].i + 1].id
           cached == CacheOutputFiles(mon[e].outputs, copied, ex[e].executionId)
       IN  IF cached = <<>>
           THEN NodeFails(e, "No outputs detected or execution failed")
           ELSE NodeDone(e, NodeResult(TRUE, stepId, "", cached),
                         UpdateCache(ex[e].output_cache, cached, stepId, 1))
    /\ seen' = [seen EXCEPT ![e].viaHistory =
                    mon[e].execution_cached /\ mon[e].completed_nodes = {}]
    /\ UNCHANGED <<chain, flag, remote, posted, iresult>>
    /\ UNCHANGED bcVars

\* steps 4 and 5 of _execute_workflow_node: copy the files (copied: the
\* outputs whose source file exists and is copied), fill the output cache
ExecCache(e, copied) ==
    /\ pc[e] = "caching" /\ running = e
    /\ LET stepId == chain[e][ex[e].i + 1].id
           cached == CacheOutputFiles(mon[e].outputs, copied, ex[e].executionId)
       IN  NodeDone(e, NodeResult(TRUE, stepId, "", cached),
                    UpdateCache(ex[e].output_cache, cached, stepId, 1))
    /\ seen' = [seen EXCEPT ![e].viaHistory =
                    mon[e].execution_cached /\ mon[e].completed_nodes = {}]
    /\ UNCHANGED <<chain, flag, remote, posted, iresult>>
    /\ UNCHANGED bcVars

\* faulty variant: the failure path returns without complete_chain_execution
ExecAfterFailedNoComplete(e) ==
    /\ pc[e] = "failed" /\ running = e
    /\ pc' = [pc EXCEPT ![e] = "done"]
    /\ running' = NoProc
    /\ UNCHANGED <<chain, flag, op, ex, mon, remote, posted, iresult, seen>>
    /\ UNCHANGED bcVars

\* faulty variant: after a failed step the loop goes on with the next step
ExecAfterFailedGoesOn(e) ==
    /\ pc[e] = "failed" /\ running = e
    /\ ex' = [ex EXCEPT ![e].i = @ + 1]
    /\ pc' = [pc EXCEPT ![e] = "loop"]
    /\ UNCHANGED <<chain, flag, running, op, mon, remote, posted, iresult, seen>>
    /\ UNCHANGED bcVars

\* after the step was broadcast failed: complete_chain_execution, return
ExecAfterFailed(e) ==
    /\ pc[e] = "failed" /\ running = e
    /\ Call(e, CompleteOp(FALSE, "stepfail", "done"))
    /\ UNCHANGED <<chain, flag, ex, mon, remote, posted, iresult, seen>>
    /\ UNCHANGED bcVars

\* after the step was broadcast completed: the next step is set waiting and
\* the loop sleeps 10 s, unless the step was the last one
ExecAfterCompleted(e) ==
    /\ pc[e] = "completed" /\ running = e
    /\ IF ex[e].i < Len(chain[e]) - 1
       THEN Call(e, UpdateOp(ex[e].i + 1, "waiting", "", "sleeping")) /\ UNCHANGED ex
       ELSE /\ ex' = [ex EXCEPT ![e].i = @ + 1]
            /\ pc' = [pc EXCEPT ![e] = "loop"]
            /\ UNCHANGED <<op, running>>
    /\ seen' = [seen EXCEPT ![e].viaHistory = FALSE]
    /\ UNCHANGED <<chain, flag, mon, remote, posted, iresult>>
    /\ UNCHANGED bcVars

\* asyncio.sleep(10) is over: the next iteration
ExecWake(e) ==
    /\ pc[e] = "sleeping" /\ running = NoProc
    /\ ex' = [ex EXCEPT ![e].i = @ + 1]
    /\ pc' = [pc EXCEPT ![e] = "loop"]
    /\ running' = e
    /\ UNCHANGED <<chain, flag, op, mon, remote, posted, iresult, seen>>
    /\ UNCHANGED bcVars

\* ------------------------------------------------- interrupt_execution
\* execute() of e has been called and has not returned
InFlight(e) == pc[e] \notin {"off", "idle", "done"}
\* _execute_workflow_node is awaited
MidStep(e) == pc[e] \in {"submitting", "connecting", "mon_recv", "history"}

\* the flag is set, then the POST to /interrupt is awaited
IntrCall(i) ==
    /\ pc[i] = "idle" /\ running = NoProc
    /\ flag' = TRUE
    /\ iresult' = [iresult EXCEPT ![i] = [returned |-> FALSE, success |-> FALSE]]
    /\ pc' = [pc EXCEPT ![i] = "posting"]
    /\ seen' = [e \in Execs |->
                  IF InFlight(e)
                  THEN [seen[e] EXCEPT !.during = TRUE, !.overlap = TRUE,
                                       !.midstep = @ \/ MidStep(e)]
                  ELSE seen[e]]
    /\ UNCHANGED <<chain, running, op, ex, mon, remote, posted>>
    /\ UNCHANGED bcVars

\* the POST answers 200 or another status (logged), and the completion is
\* broadcast; or it raises (connection refused, timeout) into the except
\* clause.  Either way the finally clause then sleeps 2 s.
IntrPostReturn(i, outcome) ==
    /\ pc[i] = "posting" /\ running = NoProc
    /\ IF outcome = "transport"
       THEN /\ iresult' = [iresult EXCEPT ![i].success = FALSE]
            /\ pc' = [pc EXCEPT ![i] = "grace"]
            /\ UNCHANGED <<op, running>>
       ELSE /\ iresult' = [iresult EXCEPT ![i].success = TRUE]
            /\ Call(i, CompleteOp(FALSE, "interrupted", "grace"))
    /\ UNCHANGED <<chain, flag, ex, mon, remote, posted, seen>>
    /\ UNCHANGED bcVars

\* faulty variant: the finally clause returns without clearing the flag
IntrGraceEndKeepsFlag(i) ==
    /\ pc[i] = "grace" /\ running = NoProc
    /\ iresult' = [iresult EXCEPT ![i].returned = TRUE]
    /\ pc' = [pc EXCEPT ![i] = "idle"]
    /\ UNCHANGED <<chain, flag, running, op, ex, mon, remote, posted, seen>>
    /\ UNCHANGED bcVars

\* finally: after the sleep the flag is cleared and the call returns
IntrGraceEnd(i) ==
    /\ pc[i] = "grace" /\ running = NoProc
    /\ flag' = FALSE
    /\ iresult' = [iresult EXCEPT ![i].returned = TRUE]
    /\ pc' = [pc EXCEPT ![i] = "idle"]
    /\ UNCHANGED <<chain, running, op, ex, mon, remote, posted, seen>>
    /\ UNCHANGED bcVars

\* --------------------------------------------- chain_progress_websocket
\* a client connects: add_client
ObsConnect(o) ==
    /\ pc[o] = "closed" /\ running = NoProc
    /\ Call(o, AddOp("open"))
    /\ UNCHANGED <<chain, flag, ex, mon, remote, posted, iresult, seen>>
    /\ UNCHANGED bcVars

\* the client sends 'request_state': send_current_state
ObsRequestState(o) ==
    /\ pc[o] = "open" /\ running = NoProc
    /\ Call(o, StateOp("open"))
    /\ UNCHANGED <<chain, flag, ex, mon, remote, posted, iresult, seen>>
    /\ UNCHANGED bcVars

\* faulty variant: remove_client discards the client without taking the lock
ObsDisconnectNoLock(o) ==
    /\ pc[o] = "open" /\ running = NoProc
    /\ lastRecv' = [lastRecv EXCEPT ![o] = NoMessage]
    /\ sub' = [sub EXCEPT ![o] = NoSub(sub[o].track)]
    /\ clients' = clients \ {o}
    /\ pc' = [pc EXCEPT ![o] = "closed"]
    /\ UNCHANGED <<chain, flag, ex, mon, remote, posted, iresult, seen, op, running>>
    /\ UNCHANGED <<lock, waitq, current_execution, bcast, log>>

\* the connection ends (the socket receives nothing more): remove_client in
\* the finally clause
ObsDisconnect(o) ==
    /\ pc[o] = "open" /\ running = NoProc
    /\ lastRecv' = [lastRecv EXCEPT ![o] = NoMessage]
    /\ sub' = [sub EXCEPT ![o] = NoSub(sub[o].track)]
    /\ Call(o, RemoveOp("closed"))
    /\ UNCHANGED <<chain, flag, ex, mon, remote, posted, iresult, seen>>
    /\ UNCHANGED <<lock, waitq, clients, current_execution, bcast, log>>

\* ------------------------------------------------------ chains, remote
StepNames == <<"s1", "s2", "s3", "s4", "s5">>
FileInfo(filename, subfolder) == [filename |-> filename, subfolder |-> subfolder]
ImagePayload == [gifs |-> <<>>, images |-> <<FileInfo("a.png", "")>>]

\* a loader (node 1) feeding a saver (node 9)
StepGraph ==
    << GraphNode("1", [image |-> <<"in.png">>]),
       GraphNode("9", [filename_prefix |-> <<"out">>, images |-> <<"1">>]) >>

\* step k takes its image from the output of step k-1
ChainStep(k) ==
    [id |-> <<StepNames[k]>>, graph |-> StepGraph,
     bindings |-> IF k = 1 THEN {}
                  ELSE {DynamicBinding(<<"1", "image">>, k - 2, <<"9">>)}]

ChainOfLength(n) == [k \in 1..n |-> ChainStep(k)]

MainRemote ==
    [nodes |-> {"9"}, payloads |-> {ImagePayload},
     histories |-> {<<>>, [n \in {"9"} |-> ImagePayload]}]

\* ----------------------------------------------------------- the system
Init ==
    /\ \E n \in 0..MaxSteps :
           chain = [e \in Execs |-> IF e = FirstExec THEN ChainOfLength(n) ELSE <<>>]
    /\ flag = FALSE
    /\ running = NoProc
    /\ pc = [p \in Procs |-> IF p \in Obs \ {SpareObs} THEN "closed"
                            ELSE IF p \in {FirstExec} \cup (Intrs \ {SpareIntr}) THEN "idle"
                            ELSE "off"]
    /\ op = [p \in Procs |-> NoOp]
    /\ ex = [e \in Execs |-> NewExecutor("x1")]
    /\ mon = [e \in Execs |-> NoMonitor]
    /\ remote = MainRemote
    /\ posted = <<>>
    /\ iresult = [i \in Intrs |-> [returned |-> FALSE, success |-> FALSE]]
    /\ lock = NoProc
    /\ waitq = <<>>
    /\ clients = {}
    /\ current_execution = NoExecution
    /\ bcast = NoBroadcast
    /\ log = <<>>
    /\ lastRecv = [o \in Obs |-> NoMessage]
    /\ sub = [o \in Obs |-> NoSub(FALSE)]
    /\ seen = [e \in Execs |-> [during |-> FALSE, overlap |-> FALSE, viaHistory |-> FALSE,
                                midstep |-> FALSE, lost |-> FALSE]]

Next ==
    \/ \E p \in Procs : BcEnter(p)
    \/ \E p \in Procs : BcGranted(p)
    \/ \E p \in Procs, c \in Obs, ok \in BOOLEAN : BcSend(p, c, ok)
    \/ \E e \in Execs : ExecStart(e)
    \/ \E e \in Execs, ok \in BOOLEAN : ExecEnsureFolder(e, ok)
    \/ \E e \in Execs : ExecLoopTop(e)
    \/ \E e \in Execs : ExecNode(e)
    \/ \E e \in Execs, ok \in BOOLEAN : SubmitReturn(e, ok)
    \/ \E e \in Execs, ok \in BOOLEAN : MonConnect(e, ok)
    \/ \E e \in Execs, ev \in RemoteEvents : MonRecv(e, ev)
    \/ \E e \in Execs : MonTick(e)
    \/ \E e \in Execs : MonDeadline(e)
    \/ \E e \in Execs : MonStreamError(e)
    \/ \E e \in Execs, ok \in BOOLEAN, h \in remote.histories : HistoryReturn(e, ok, h)
    \/ \E e \in Execs, copied \in SUBSET (1..(2 * MaxOutputs)) : ExecCache(e, copied)
    \/ \E e \in Execs : ExecAfterFailed(e)
    \/ \E e \in Execs : ExecAfterCompleted(e)
    \/ \E e \in Execs : ExecWake(e)
    \/ \E i \in Intrs : IntrCall(i)
    \/ \E i \in Intrs, outcome \in {"200", "status", "transport"} : IntrPostReturn(i, outcome)
    \/ \E i \in Intrs : IntrGraceEnd(i)
    \/ \E o \in Obs : ObsConnect(o)
    \/ \E o \in Obs : ObsRequestState(o)
    \/ \E o \in Obs : ObsDisconnect(o)

Spec == Init /\ [][Next]_vars

\* ================================================================ claims
Last(q) == q[Len(q)]
Terminal(m) == m.type = "chain_progress" /\ ~ m.isExecuting /\ m.completed
LogIndices == 1..Len(log)
PostedBy(e) == {k \in 1..Len(posted) : posted[k].executionId = ex[e].executionId}

\* C1: once interrupt() was invoked while execute() was in flight, the loop's
\* next per-step check (a step is still to be started) sees the flag set and
\* ends the execution as interrupted instead of starting the step.
C1_InterruptStopsAtNextCheck ==
    [][\A e \in Execs :
          (seen[e].during /\ pc[e] = "loop" /\ ex[e].i < Len(chain[e])
             /\ pc'[e] # "loop")
          => ex'[e].status = "interrupted"]_vars

\* C2: once execute() has returned on a non-empty chain, the last message
\* handed to _broadcast is a terminal one of that execution and no registered
\* observer is left with a last-received message that says isExecuting.
C2_TerminalSnapshotDelivered ==
    \A e \in Execs :
        (pc[e] = "done" /\ chain[e] # <<>>)
        => /\ log # <<>>
           /\ Terminal(Last(log))
           /\ Last(log).executionId = ex[e].executionId
           /\ \A o \in clients : ~ lastRecv[o].isExecuting

C2_Witness ==
    \E e \in Execs :
        /\ pc[e] = "done" /\ ex[e].result.error = "exception"
        /\ \E o \in clients : Terminal(lastRecv[o])

\* execute() has returned because the step's submission or monitoring failed
RemoteStepFailed(e) ==
    /\ pc[e] = "done" /\ ex[e].result.error = "stepfail"
    /\ Last(ex[e].node_results).error \in
          {"Failed to submit workflow", "No outputs detected or execution failed"}

C3_Results(e) ==
    LET i == ex[e].i
        r == ex[e].node_results
    IN  /\ Len(r) = i + 1
        /\ ~ r[i + 1].success
        /\ \A k \in 1..i : r[k].success
        /\ ex[e].status = "failed"
        /\ \A k \in PostedBy(e) : posted[k].index <= i

C3_Broadcasts(e) ==
    LET i == ex[e].i
    IN  \E j, k \in LogIndices :
            /\ j < k
            /\ log[j].isExecuting /\ log[j].workflows[i + 1].status = "failed"
            /\ Terminal(log[k]) /\ ~ log[k].success
            /\ log[k].workflows[i + 1].status = "failed"

InterruptCompleted ==
    \E k \in LogIndices : Terminal(log[k]) /\ log[k].error = "interrupted"

C4_EmptyChainFailsFast ==
    [][\A e \in Execs :
          (pc[e] = "idle" /\ pc'[e] # "idle" /\ chain[e] = <<>>)
          => /\ pc'[e] = "done"
             /\ ~ ex'[e].result.success
             /\ ex'[e].output_cache = ex[e].output_cache
             /\ UNCHANGED <<posted, current_execution, log, lastRecv, clients, bcast>>]_vars

C4_Witness ==
    \E e \in Execs : pc[e] = "done" /\ chain[e] = <<>> /\ clients # {}

\* the step in which interrupt()'s complete_chain_execution runs its body
\* while no snapshot is stored
IdleCompletion(i) ==
    /\ pc[i] \in {"bc_call", "bc_wait"} /\ pc'[i] \notin {"bc_call", "bc_wait"}
    /\ op[i].kind = "complete"
    /\ ~ current_execution.has

C6_InterruptAlwaysSucceeds ==
    \A i \in Intrs : iresult[i].returned => iresult[i].success

\* ------------------------------------- two interrupt() calls, no observer
\* Both interrupt() callers are present and may overlap; no websocket client
\* subscribes, so _broadcast returns at once and the lock is never waited on.
InitIntr ==
    /\ \E n \in 0..MaxSteps :
           chain = [e \in Execs |-> IF e = FirstExec THEN ChainOfLength(n) ELSE <<>>]
    /\ flag = FALSE
    /\ running = NoProc
    /\ pc = [p \in Procs |-> IF p \in Obs THEN "closed"
                            ELSE IF p \in {FirstExec} \cup Intrs THEN "idle"
                            ELSE "off"]
    /\ op = [p \in Procs |-> NoOp]
    /\ ex = [e \in Execs |-> NewExecutor("x1")]
    /\ mon = [e \in Execs |-> NoMonitor]
    /\ remote = MainRemote
    /\ posted = <<>>
    /\ iresult = [i \in Intrs |-> [returned |-> FALSE, success |-> FALSE]]
    /\ lock = NoProc
    /\ waitq = <<>>
    /\ clients = {}
    /\ current_execution = NoExecution
    /\ bcast = NoBroadcast
    /\ log = <<>>
    /\ lastRecv = [o \in Obs |-> NoMessage]
    /\ sub = [o \in Obs |-> NoSub(FALSE)]
    /\ seen = [e \in Execs |-> [during |-> FALSE, overlap |-> FALSE, viaHistory |-> FALSE,
                                midstep |-> FALSE, lost |-> FALSE]]

NextIntr ==
    \/ \E p \in Procs : BcEnter(p)
    \/ \E e \in Execs : ExecStart(e)
    \/ \E e \in Execs, ok \in BOOLEAN : ExecEnsureFolder(e, ok)
    \/ \E e \in Execs : ExecLoopTop(e)
    \/ \E e \in Execs : ExecNode(e)
    \/ \E e \in Execs, ok \in BOOLEAN : SubmitReturn(e, ok)
    \/ \E e \in Execs, ok \in BOOLEAN : MonConnect(e, ok)
    \/ \E e \in Execs, ev \in RemoteEvents : MonRecv(e, ev)
    \/ \E e \in Execs : MonTick(e)
    \/ \E e \in Execs : MonDeadline(e)
    \/ \E e \in Execs : MonStreamError(e)
    \/ \E e \in Execs, ok \in BOOLEAN, h \in remote.histories : HistoryReturn(e, ok, h)
    \/ \E e \in Execs, copied \in SUBSET (1..(2 * MaxOutputs)) : ExecCache(e, copied)
    \/ \E e \in Execs : ExecAfterFailed(e)
    \/ \E e \in Execs : ExecAfterCompleted(e)
    \/ \E e \in Execs : ExecWake(e)
    \/ \E i \in Intrs : IntrCall(i)
    \/ \E i \in Intrs, outcome \in {"200", "status", "transport"} : IntrPostReturn(i, outcome)
    \/ \E i \in Intrs : IntrGraceEnd(i)

\* The event loop runs a coroutine up to its next await, and every await of
\* interrupt() that is ready (the POST answered or timed out after 10 s, the
\* 2 s sleep over) is resumed.
FairIntr ==
    /\ WF_vars(running # NoProc /\ NextIntr)
    /\ \A i \in Intrs :
          /\ SF_vars(\E outcome \in {"200", "status", "transport"} : IntrPostReturn(i, outcome))
          /\ SF_vars(IntrGraceEnd(i))

IntrSpec == InitIntr /\ [][NextIntr]_vars /\ FairIntr

Interrupting(i) == pc[i] \notin {"idle", "off"}

\* C7: the flag is clear in the state interrupt() returns to and whenever no
\* interrupt() is in progress, a set flag is eventually cleared, and an
\* execution is ended as interrupted only if an interrupt() was in progress
\* at its start or was called while it was in flight.
C7_FlagCleared ==
    /\ [][/\ \A i \in Intrs : (pc[i] = "grace" /\ pc'[i] = "idle") => ~ flag'
          /\ ((\A i \in Intrs : ~ Interrupting(i)) => ~ flag)'
          /\ \A e \in Execs : (ex[e].status = "interrupted" => seen[e].overlap)']_vars
    /\ (flag ~> ~ flag)

C7_Witness ==
    \E e \in Execs :
        /\ \A i \in Intrs : iresult[i].returned /\ ~ Interrupting(i)
        /\ \E i \in Intrs : ~ iresult[i].success
        /\ ~ seen[e].overlap /\ pc[e] = "done" /\ ex[e].status = "completed"

StatusMoves ==
    {<<"pending", "running">>, <<"running", "completed">>, <<"running", "failed">>,
     <<"running", "interrupted">>}
TerminalStatus == {"completed", "failed", "interrupted"}

\* C8: the status of an execution changes only along pending -> running ->
\* completed | failed | interrupted, and execute() on a non-empty chain has
\* returned only with one of the three terminal statuses.
C8_StatusStateMachine ==
    [][\A e \in Execs :
          /\ ex'[e].status # ex[e].status
             => <<ex[e].status, ex'[e].status>> \in StatusMoves
          /\ (pc'[e] = "done" /\ chain'[e] # <<>>) => ex'[e].status \in TerminalStatus]_vars

C8_Witness ==
    \E e \in Execs :
        /\ pc[e] = "done" /\ ex[e].status = "interrupted"
        /\ Len(ex[e].node_results) = 1

\* C9: in the sequence of messages broadcast for one execution, the progress
\* snapshots carry a currentWorkflowIndex that is a step index and never
\* decreases from one snapshot to the next, and every terminal message
\* carries None.
C9_IndexMonotone ==
    \A j \in LogIndices :
        /\ Terminal(log[j]) => log[j].currentWorkflowIndex = NoneIdx
        /\ log[j].isExecuting => log[j].currentWorkflowIndex >= 0
        /\ (j < Len(log) /\ log[j].isExecuting /\ log[j + 1].isExecuting)
           => log[j].currentWorkflowIndex <= log[j + 1].currentWorkflowIndex

C9_Witness ==
    /\ Len(log) >= 6
    /\ log[1].currentWorkflowIndex = 0
    /\ \E j \in LogIndices :
          log[j].isExecuting /\ log[j].currentWorkflowIndex = 1
          /\ log[j].workflows[2].status = "failed"
    /\ Terminal(Last(log))

\* the job was reported cached, no 'executed' event was taken for it
CachedOnly(e) ==
    /\ mon[e].execution_cached /\ mon[e].completed_nodes = {}
    /\ ~ mon[e].execution_failed
    /\ Len(mon[e].outIds) = 1

OneImageHistory(h) ==
    /\ DOMAIN h = {"9"}
    /\ Len(h["9"].images) = 1 /\ h["9"].gifs = <<>>

ExecutingNull == Event("executing", "mine", NoneStr, NoPayload)

\* C10 (as claimed): on execution_cached then executing{null}, with a history
\* that has one image for the output node, monitoring goes to the history
\* query, takes its one output, and the step's result is a success with
\* exactly one output.
C10_Original ==
    [][\A e \in Execs :
          /\ (CachedOnly(e) /\ MonRecv(e, ExecutingNull)) => pc'[e] = "history"
          /\ \A h \in remote.histories :
                (CachedOnly(e) /\ OneImageHistory(h) /\ HistoryReturn(e, TRUE, h))
                => (pc'[e] = "caching" /\ Len(mon'[e].outputs) = 1)
          /\ (pc[e] = "caching" /\ CachedOnly(e) /\ pc'[e] # "caching")
             => /\ Last(ex'[e].node_results).success
                /\ Len(Last(ex'[e].node_results).outputs) = 1]_vars

\* C10 (amended): the same when executing{null} is read before the 600 s
\* deadline has passed; the step's result is then a success whose outputs
\* are the files copied to chain_result: the one image if its file exists in
\* the output directory, none otherwise.
C10_CachedRunUsesHistory ==
    [][\A e \in Execs :
          /\ (CachedOnly(e) /\ ~ mon[e].expired /\ MonRecv(e, ExecutingNull))
             => pc'[e] = "history"
          /\ \A h \in remote.histories :
                (CachedOnly(e) /\ OneImageHistory(h) /\ HistoryReturn(e, TRUE, h))
                => /\ pc'[e] = "caching"
                   /\ Len(mon'[e].outputs) = 1
                   /\ mon'[e].outputs[1].filename = h["9"].images[1].filename
          /\ \A copied \in SUBSET (1..(2 * MaxOutputs)) :
                (pc[e] = "caching" /\ CachedOnly(e) /\ ExecCache(e, copied))
                => /\ Last(ex'[e].node_results).success
                   /\ Len(Last(ex'[e].node_results).outputs)
                         = IF 1 \in copied THEN 1 ELSE 0]_vars

C10_Witness ==
    \E e \in Execs :
        /\ pc[e] = "completed" /\ seen[e].viaHistory
        /\ Last(ex[e].node_results).success
        /\ Len(Last(ex[e].node_results).outputs) = 1
        /\ ex[e].output_cache # <<>>

\* --------------------------------------- two observers, one execution
\* Both websocket clients are present and their history is recorded; no
\* interrupt() is called; the remote server answers each job with the
\* 'executed' event of its output node.
ExecutedNine == Event("executed", "mine", "9", ImagePayload)

InitObs ==
    /\ chain = [e \in Execs |-> IF e = FirstExec THEN ChainOfLength(ObsSteps) ELSE <<>>]
    /\ flag = FALSE
    /\ running = NoProc
    /\ pc = [p \in Procs |-> IF p \in Obs THEN "closed"
                            ELSE IF p = FirstExec THEN "idle"
                            ELSE "off"]
    /\ op = [p \in Procs |-> NoOp]
    /\ ex = [e \in Execs |-> NewExecutor("x1")]
    /\ mon = [e \in Execs |-> NoMonitor]
    /\ remote = MainRemote
    /\ posted = <<>>
    /\ iresult = [i \in Intrs |-> [returned |-> FALSE, success |-> FALSE]]
    /\ lock = NoProc
    /\ waitq = <<>>
    /\ clients = {}
    /\ current_execution = NoExecution
    /\ bcast = NoBroadcast
    /\ log = <<>>
    /\ lastRecv = [o \in Obs |-> NoMessage]
    /\ sub = [o \in Obs |-> NoSub(TRUE)]
    /\ seen = [e \in Execs |-> [during |-> FALSE, overlap |-> FALSE, viaHistory |-> FALSE,
                                midstep |-> FALSE, lost |-> FALSE]]

\* the chain has ObsSteps = 1 step: no delay between steps is slept
NextObs ==
    \/ \E p \in Procs : BcEnter(p)
    \/ \E p \in Procs : BcGranted(p)
    \/ \E p \in Procs, c \in Obs, ok \in BOOLEAN : BcSend(p, c, ok)
    \/ \E e \in Execs : ExecStart(e)
    \/ \E e \in Execs : ExecEnsureFolder(e, TRUE)
    \/ \E e \in Execs : ExecLoopTop(e)
    \/ \E e \in Execs : ExecNode(e)
    \/ \E e \in Execs, ok \in BOOLEAN : SubmitReturn(e, ok)
    \/ \E e \in Execs : MonConnect(e, TRUE)
    \/ \E e \in Execs : MonRecv(e, ExecutedNine)
    \/ \E e \in Execs : ExecCache(e, {1})
    \/ \E e \in Execs : ExecAfterFailed(e)
    \/ \E e \in Execs : ExecAfterCompleted(e)
    \/ \E o \in Obs : ObsConnect(o)
    \/ \E o \in Obs : ObsRequestState(o)
    \/ \E o \in Obs : ObsDisconnect(o)

ObsSpec == InitObs /\ [][NextObs]_vars

\* a _broadcast of start/update/complete is sending
Broadcasting(p) == pc[p] = "bc_send" /\ op[p].kind \in {"start", "update", "complete"}
\* the message being broadcast has still to be sent to o
Pending(o) == \E p \in Procs : Broadcasting(p) /\ o \in bcast.todo
Positive(k) == k > 0
BroadcastsGot(o) == SelectSeq(sub[o].got, Positive)

\* what a registered observer has received of the broadcasts issued since it
\* was registered: all of them, in order
InOrder(o) ==
    LET n == Len(log) - (IF Pending(o) THEN 1 ELSE 0)
    IN  /\ BroadcastsGot(o) = [k \in 1..(n - sub[o].since) |-> sub[o].since + k]
        /\ \A k \in 2..Len(sub[o].got) : sub[o].got[k] # 0

\* C13: add_client registers the observer and sends it, before anything
\* else, the stored snapshot or the idle state; a registered observer whose
\* socket is open and to which no send has failed has received every message
\* broadcast since, in the order of the broadcasts, each with the content
\* that was broadcast.
C13_OrderedDelivery ==
    [][/\ \A o \in Obs :
            (o \in clients /\ Connected(o) /\ o \notin bcast.disc)' => InOrder(o)'
       /\ \A o \in Obs :
            (pc[o] \in {"bc_call", "bc_wait"} /\ op[o].kind = "add"
               /\ pc'[o] \notin {"bc_call", "bc_wait"})
            => /\ o \in clients' /\ pc'[o] = "bc_send"
               /\ bcast'.todo = {o} /\ bcast'.msg = CurrentState(current_execution)
       /\ \A p \in Procs, c \in Obs :
            (Connected(c) /\ BcSend(p, c, TRUE))
            => /\ lastRecv'[c] = bcast.msg
               /\ Broadcasting(p) => bcast.msg = Last(log)
               /\ op[p].kind = "add" =>
                     (p = c /\ sub[c].got = <<>>
                        /\ bcast.msg = CurrentState(current_execution))]_vars

C13_Witness ==
    \E o1, o2 \in clients :
        /\ sub[o1].got = <<0, 1, 2, 3, 4>>
        /\ sub[o2].since = 2 /\ sub[o2].got = <<0, 3, 4>>
        /\ lastRecv[o1] = Last(log) /\ lock = NoProc

\* C14: a failed send of a broadcast puts that observer, and no other, on the
\* list of the observers to drop; the broadcast goes on with the others and
\* returns normally; at its end exactly the observers whose send failed are
\* dropped, and every observer still registered with an open socket has
\* received the message.
C14_FailedSendDropsOne ==
    [][\A p \in Procs, c \in Obs, ok \in BOOLEAN :
          (Broadcasting(p) /\ BcSend(p, c, ok)) =>
            LET failed == bcast.disc \cup (IF ok THEN {} ELSE {c})
            IN  /\ pc'[p] \in {"bc_send", op[p].ret}
                /\ pc'[p] = "bc_send"
                   => /\ clients' = clients
                      /\ bcast'.disc = failed
                      /\ bcast'.msg = bcast.msg
                      /\ bcast'.todo = bcast.todo \ {c}
                /\ pc'[p] # "bc_send"
                   => /\ clients' = clients \ failed
                      /\ \A d \in clients' :
                            Connected(d)
                            => (sub'[d].got # <<>> /\ Last(sub'[d].got) = Len(log))]_vars

C14_Witness ==
    \E o1, o2 \in Obs :
        /\ Len(log) >= 2 /\ lock = NoProc
        /\ o1 \notin clients /\ pc[o1] = "open"
        /\ sub[o1].got # <<>> /\ Last(sub[o1].got) = Len(log) - 1
        /\ o2 \in clients /\ sub[o2].got # <<>> /\ Last(sub[o2].got) = Len(log)

\* complete_chain_execution has broadcast the terminal message of the stored
\* snapshot and returned, and no execution was started since
Cleared ==
    /\ log # <<>> /\ Terminal(Last(log))
    /\ ~ \E p \in Procs : Broadcasting(p) /\ op[p].kind = "complete"

\* C15: once complete_chain_execution has broadcast the terminal message and
\* returned, no snapshot is stored: get_current_state gives the idle state,
\* and add_client and send_current_state send the idle state, until the next
\* start_chain_execution.
C15_IdleAfterCompletion ==
    [][/\ Cleared' => (~ current_execution'.has
                       /\ CurrentState(current_execution') = IdleMessage)
       /\ \A o \in Obs :
            (Cleared /\ op[o].kind \in {"add", "state"} /\ Connected(o)
               /\ BcSend(o, o, TRUE))
            => lastRecv'[o] = IdleMessage]_vars

C15_Witness ==
    \E o \in clients :
        /\ Cleared /\ sub[o].since = Len(log) /\ sub[o].got = <<0>>
        /\ lastRecv[o] = IdleMessage /\ pc[o] = "open"

\* ------------------------------------------- chains with any one binding
ExecutedNineB ==
    Event("executed", "mine", "9", [gifs |-> <<>>, images |-> <<FileInfo("b.png", "")>>])

\* ids of steps: two plain ones and one that holds a '.'
BindStepIds == {<<"a">>, <<"b">>, <<"a", "9">>}
\* binding keys: a field of the loader, of a node that the graph has not,
\* and a key of three parts
BindKeys == {<<"1", "image">>, <<"7", "image">>, <<"1", "image", "x">>}
BindOutIds == {<<"9">>, <<"9", "9">>}

\* a literal for the saver's prefix
PrefixBinding == StaticBinding(<<"9", "filename_prefix">>, <<"pre">>)

\* every step has the graph StepGraph, the one dynamic binding drawn and the
\* static binding PrefixBinding
InitBind ==
    /\ \E ids \in [1..BindSteps -> BindStepIds], key \in BindKeys,
          idx \in (0 - MaxIndex - 1)..MaxIndex, outId \in BindOutIds :
           chain = [e \in Execs |->
                      IF e = FirstExec
                      THEN [k \in 1..BindSteps |->
                              [id |-> ids[k], graph |-> StepGraph,
                               bindings |-> {DynamicBinding(key, idx, outId),
                                             PrefixBinding}]]
                      ELSE <<>>]
    /\ flag = FALSE
    /\ running = NoProc
    /\ pc = [p \in Procs |-> IF p = FirstExec THEN "idle" ELSE "off"]
    /\ op = [p \in Procs |-> NoOp]
    /\ ex = [e \in Execs |-> NewExecutor("x1")]
    /\ mon = [e \in Execs |-> NoMonitor]
    /\ remote = MainRemote
    /\ posted = <<>>
    /\ iresult = [i \in Intrs |-> [returned |-> FALSE, success |-> FALSE]]
    /\ lock = NoProc
    /\ waitq = <<>>
    /\ clients = {}
    /\ current_execution = NoExecution
    /\ bcast = NoBroadcast
    /\ log = <<>>
    /\ lastRecv = [o \in Obs |-> NoMessage]
    /\ sub = [o \in Obs |-> NoSub(FALSE)]
    /\ seen = [e \in Execs |-> [during |-> FALSE, overlap |-> FALSE, viaHistory |-> FALSE,
                                midstep |-> FALSE, lost |-> FALSE]]

NextBind ==
    \/ \E p \in Procs : BcEnter(p)
    \/ \E e \in Execs : ExecStart(e)
    \/ \E e \in Execs : ExecEnsureFolder(e, TRUE)
    \/ \E e \in Execs : ExecLoopTop(e)
    \/ \E e \in Execs : ExecNode(e)
    \/ \E e \in Execs, ok \in BOOLEAN : SubmitReturn(e, ok)
    \/ \E e \in Execs : MonConnect(e, TRUE)
    \/ \E e \in Execs, ev \in {ExecutedNine, ExecutedNineB} : MonRecv(e, ev)
    \/ \E e \in Execs, copied \in {{}, {1}} : ExecCache(e, copied)
    \/ \E e \in Execs : ExecAfterFailed(e)
    \/ \E e \in Execs : ExecAfterCompleted(e)
    \/ \E e \in Execs : ExecWake(e)

BindSpec == InitBind /\ [][NextBind]_vars

\* the step that ExecNode resolves, and its dynamic bindings
StepOf(e) == chain[e][ex[e].i + 1]
DynamicOf(e) == {b \in StepOf(e).bindings : b.type = "dynamic" /\ b.hasIdx}
\* the resolved graph was built without an exception and goes to submission
\* with the target of b as it is in the original graph
Untouched(e, b) ==
    /\ pc'[e] = "submitting"
    /\ Len(posted') = Len(posted) + 1
    /\ FieldOf(Last(posted').graph, b.key) = FieldOf(StepOf(e).graph, b.key)

\* C11: when a step is resolved, a dynamic binding whose sourceWorkflowIndex
\* is greater than the number of steps executed so far raises no exception
\* and leaves its target field as it is in the original graph, whatever the
\* ids of the steps.
C11_ForwardReferenceUntouched ==
    [][\A e \in Execs :
          ExecNode(e) =>
             \A b \in DynamicOf(e) :
                b.sourceWorkflowIndex > ex[e].i => Untouched(e, b)]_vars

\* the outputs that the cache step stored for the step just executed
StoredBy(e) == Range(Last(ex[e].node_results).outputs)

\* C12: the cache step adds to the output cache exactly the keys
\* "{stepId}.{outputNodeId}" of the outputs it stored, each with its
\* cachedPath; and when step N+1 is resolved, a dynamic binding {N, o} whose
\* key names a field of a node of the graph writes into that field the
\* cachedPath that was stored for output node o of step N.
C12_CacheRoundTrip ==
    [][\A e \in Execs :
          /\ \A copied \in SUBSET {1} :
                ExecCache(e, copied) =>
                   LET res == Last(ex'[e].node_results)
                       keys == {StepOf(e).id \o <<r.nodeId>> : r \in Range(res.outputs)}
                   IN  /\ DOMAIN ex'[e].output_cache = DOMAIN ex[e].output_cache \cup keys
                       /\ \A r \in Range(res.outputs) :
                             ex'[e].output_cache[StepOf(e).id \o <<r.nodeId>>] = r.cachedPath
                       /\ \A k \in DOMAIN ex[e].output_cache \ keys :
                             ex'[e].output_cache[k] = ex[e].output_cache[k]
          /\ (ExecNode(e) /\ ex[e].i >= 1) =>
                \A b \in DynamicOf(e), r \in StoredBy(e) :
                   ( /\ b.sourceWorkflowIndex = ex[e].i - 1
                     /\ b.sourceOutputNodeId = <<r.nodeId>>
                     /\ Len(b.key) = 2 /\ HasNode(StepOf(e).graph, b.key[1]) )
                   => /\ pc'[e] = "submitting"
                      /\ FieldOf(Last(posted').graph, b.key) = r.cachedPath]_vars

C12_Witness ==
    \E k \in 1..Len(posted) :
        /\ posted[k].index = 2
        /\ \E b \in chain[FirstExec][3].bindings : b.sourceWorkflowIndex = 1
        /\ FieldOf(posted[k].graph, <<"1", "image">>) = CachedRelativePath("x1", "b.png")
        /\ FieldOf(posted[1].graph, <<"1", "image">>) = <<"in.png">>
        /\ Len(ex[FirstExec].node_results) >= 2
        /\ ex[FirstExec].node_results[1].outputs # <<>>
        /\ ex[FirstExec].node_results[1].outputs[1].filename = "a.png"

\* C20: when a step is resolved, a dynamic binding whose sourceWorkflowIndex
\* is not an index of the chain's steps (negative, or the number of steps or
\* more) is skipped: the step goes to submission with the target field as
\* it is in the original graph.
C20_OutOfRangeSkipped ==
    [][\A e \in Execs :
          ExecNode(e) =>
             \A b \in DynamicOf(e) :
                (b.sourceWorkflowIndex < 0 \/ b.sourceWorkflowIndex >= Len(chain[e]))
                => Untouched(e, b)]_vars

\* C16: once interrupt() was invoked while a step of the execution was in
\* flight, execute() returns with status interrupted and success=false, its
\* nodeResults being the results of the steps that finished.
C16_InterruptEndsInterrupted ==
    \A e \in Execs :
        (pc[e] = "done" /\ seen[e].midstep)
        => /\ ex[e].status = "interrupted"
           /\ ~ ex[e].result.success
           /\ \A k \in 1..Len(ex[e].node_results) : ex[e].node_results[k].success

\* step i (from 0) was broadcast completed and then step i+1 waiting
HandedOver(e, i) ==
    \E j, k \in LogIndices :
        /\ j < k
        /\ log[j].executionId = ex[e].executionId
        /\ log[k].executionId = ex[e].executionId
        /\ log[j].isExecuting /\ log[j].workflows[i + 1].status = "completed"
        /\ log[k].isExecuting /\ log[k].workflows[i + 2].status = "waiting"

\* C17: a step is submitted once, after all the steps before it and none
\* after it; a step other than the first is submitted only when the step
\* before it has a success result, was broadcast completed and the step
\* itself was then broadcast waiting.
C17_StrictOrder ==
    [][\A e \in Execs :
          (ExecNode(e) /\ Len(posted') > Len(posted))
          => LET i == ex[e].i
             IN  /\ Last(posted').index = i
                 /\ {posted[k].index : k \in PostedBy(e)} = 0..(i - 1)
                 /\ Len(ex[e].node_results) = i
                 /\ \A k \in 1..i : ex[e].node_results[k].success
                 /\ i >= 1 => HandedOver(e, i - 1)]_vars

\* C18: when execute() has returned with a success result for every step
\* of a non-empty chain and no interrupt() overlapped it, its result is
\* success, its status completed, the results are those of the steps in
\* order, and the last broadcast is a completion with success=true in which
\* every step is completed.
C18_FullSuccess ==
    \A e \in Execs :
        ( /\ pc[e] = "done" /\ chain[e] # <<>> /\ ~ seen[e].overlap
          /\ Len(ex[e].node_results) = Len(chain[e])
          /\ \A k \in 1..Len(chain[e]) : ex[e].node_results[k].success )
        => /\ ex[e].result.success /\ ex[e].status = "completed"
           /\ \A k \in 1..Len(chain[e]) : ex[e].node_results[k].nodeId = chain[e][k].id
           /\ log # <<>> /\ Terminal(Last(log)) /\ Last(log).success
           /\ Last(log).executionId = ex[e].executionId
           /\ Len(Last(log).workflows) = Len(chain[e])
           /\ \A k \in 1..Len(chain[e]) : Last(log).workflows[k].status = "completed"

C18_Witness ==
    \E e \in Execs :
        /\ pc[e] = "done" /\ Len(chain[e]) = MaxSteps /\ ~ seen[e].overlap
        /\ Len(ex[e].node_results) = MaxSteps
        /\ ex[e].result.success /\ Last(log).success
        /\ clients # {}

\* C19: the status of an execution whose chain has no steps is pending, in
\* every state.
C19_EmptyChainStaysPending ==
    \A e \in Execs : chain[e] = <<>> => ex[e].status = "pending"

\* ------------------------------------- one step, any stream of events
SubImagePayload == [gifs |-> <<>>, images |-> <<FileInfo("a.png", "sub")>>]

\* a loader (node 1) feeding two savers (nodes 9 and 10)
TwoOutGraph ==
    << GraphNode("1", [image |-> <<"in.png">>]),
       GraphNode("9", [filename_prefix |-> <<"out">>, images |-> <<"1">>]),
       GraphNode("10", [filename_prefix |-> <<"sub/out">>, images |-> <<"1">>]) >>

\* the saver is a preview: save_output is false
NoOutGraph ==
    << GraphNode("1", [image |-> <<"in.png">>]),
       GraphNode("9", [filename_prefix |-> <<"out">>, images |-> <<"1">>,
                       save_output |-> JFalse]) >>

MonRemote ==
    [nodes |-> {"1", "9", "10"},
     payloads |-> {ImagePayload, SubImagePayload, NoPayload},
     histories |-> {<<>>, [n \in {"9", "10"} |-> ImagePayload],
                    [n \in {"10"} |-> SubImagePayload]}]

InitMon ==
    /\ \E g \in {TwoOutGraph, NoOutGraph} :
           chain = [e \in Execs |->
                      IF e = FirstExec
                      THEN [k \in 1..MonSteps |->
                              [id |-> <<StepNames[k]>>, graph |-> g, bindings |-> {}]]
                      ELSE <<>>]
    /\ flag = FALSE
    /\ running = NoProc
    /\ pc = [p \in Procs |-> IF p = FirstExec THEN "idle" ELSE "off"]
    /\ op = [p \in Procs |-> NoOp]
    /\ ex = [e \in Execs |-> NewExecutor("x1")]
    /\ mon = [e \in Execs |-> NoMonitor]
    /\ remote = MonRemote
    /\ posted = <<>>
    /\ iresult = [i \in Intrs |-> [returned |-> FALSE, success |-> FALSE]]
    /\ lock = NoProc
    /\ waitq = <<>>
    /\ clients = {}
    /\ current_execution = NoExecution
    /\ bcast = NoBroadcast
    /\ log = <<>>
    /\ lastRecv = [o \in Obs |-> NoMessage]
    /\ sub = [o \in Obs |-> NoSub(FALSE)]
    /\ seen = [e \in Execs |-> [during |-> FALSE, overlap |-> FALSE, viaHistory |-> FALSE,
                                midstep |-> FALSE, lost |-> FALSE]]

\* the chain has MonSteps = 1 step: no delay between steps is slept
NextMon ==
    \/ \E p \in Procs : BcEnter(p)
    \/ \E e \in Execs : ExecStart(e)
    \/ \E e \in Execs : ExecEnsureFolder(e, TRUE)
    \/ \E e \in Execs : ExecLoopTop(e)
    \/ \E e \in Execs : ExecNode(e)
    \/ \E e \in Execs, ok \in BOOLEAN : SubmitReturn(e, ok)
    \/ \E e \in Execs, ok \in BOOLEAN : MonConnect(e, ok)
    \/ \E e \in Execs, ev \in RemoteEvents : MonRecv(e, ev)
    \/ \E e \in Execs : MonTick(e)
    \/ \E e \in Execs : MonDeadline(e)
    \/ \E e \in Execs : MonStreamError(e)
    \/ \E e \in Execs, ok \in BOOLEAN, h \in remote.histories : HistoryReturn(e, ok, h)
    \/ \E e \in Execs, copied \in SUBSET (1..(2 * MaxOutputs)) : ExecCache(e, copied)
    \/ \E e \in Execs : ExecAfterFailed(e)
    \/ \E e \in Execs : ExecAfterCompleted(e)

\* time passes and recv() times out
FairMon ==
    \A e \in Execs : WF_vars(MonTick(e)) /\ WF_vars(MonDeadline(e))

MonSpec == InitMon /\ [][NextMon]_vars /\ FairMon

\* _execute_workflow_node returns a failed result: it is appended, nothing
\* is added to the output cache and the execution is failed
StepFailed(e) ==
    /\ Len(ex'[e].node_results) = Len(ex[e].node_results) + 1
    /\ ~ Last(ex'[e].node_results).success
    /\ Last(ex'[e].node_results).outputs = <<>>
    /\ ex'[e].output_cache = ex[e].output_cache
    /\ ex'[e].status = "failed"
    /\ op'[e].kind = "update" /\ op'[e].status = "failed"

\* the two files are not the same source file
DistinctFiles(r1, r2) == r1.subfolder # r2.subfolder \/ r1.filename # r2.filename
CachedOutputs(e) ==
    UNION {Range(ex[e].node_results[k].outputs) : k \in 1..Len(ex[e].node_results)}

\* C23: two cached outputs of an execution that come from different source
\* files (subfolder, filename) have different destinations.
C23_CollisionFree ==
    \A e \in Execs :
        \A r1, r2 \in CachedOutputs(e) :
            DistinctFiles(r1, r2) => r1.cachedPath # r2.cachedPath

SameFile(c, r) ==
    c.nodeId = r.nodeId /\ c.filename = r.filename /\ c.subfolder = r.subfolder

C25_ErrorAborts ==
    [][\A e \in Execs, ev \in RemoteEvents :
          (ev.type = "execution_error" /\ ev.prompt_id = "mine" /\ MonRecv(e, ev))
          => StepFailed(e)]_vars

C25_Witness ==
    \E e \in Execs :
        /\ seen[e].lost /\ pc[e] = "done" /\ ex[e].status = "failed"
        /\ ~ Last(ex[e].node_results).success
        /\ ex[e].output_cache = <<>>

\* a message of an unknown type, undecodable, of another job, or an executed
\* message of a node that is no output node
Foreign(e, ev) ==
    \/ ev.type \in {"other", "undecodable"}
    \/ ev.prompt_id # "mine"
    \/ ev.type = "executed" /\ ev.node \notin Range(mon[e].outIds)

\* C26: while the deadline has not passed, a message of an unknown type, an
\* undecodable one, one of another job or an executed message of a node
\* that is no output node changes nothing of the monitoring state and does
\* not end the loop.
C26_ForeignEventsIgnored ==
    [][\A e \in Execs, ev \in RemoteEvents :
          (Foreign(e, ev) /\ ~ mon[e].expired /\ pc[e] = "mon_recv" /\ MonRecv(e, ev))
          => /\ mon'[e] = mon[e]
             /\ pc'[e] = "mon_recv"
             /\ ex'[e] = ex[e]]_vars

C26_Witness ==
    \E e \in Execs :
        /\ pc[e] = "mon_recv" /\ ~ mon[e].expired
        /\ mon[e].outputs # <<>> /\ mon[e].completed_nodes = {"9"}
        /\ mon[e].execution_cached
        /\ \E ev \in RemoteEvents : Foreign(e, ev) /\ ev.type = "executed" /\ ev.prompt_id = "mine"

\* execution_success, or executing with node null, of the monitored job
EndSignal(ev) ==
    /\ ev.prompt_id = "mine"
    /\ \/ ev.type = "execution_success"
       \/ ev.type = "executing" /\ ev.node = NoneStr

\* the job is not flagged cached and some output node has not reported
StillWaiting(e) ==
    pc[e] = "mon_recv" /\ ~ mon[e].execution_cached /\ ~ AllReported(mon[e])

\* C27: while the job is not flagged cached and some output node has not
\* reported, an end signal of the job changes nothing and the loop goes on;
\* from there monitoring ends, without a further executed message, only
\* with a failed step; and it does end (the deadline passes).
C27_WaitsForOutputs ==
    /\ [][\A e \in Execs :
            /\ \A ev \in RemoteEvents :
                  (StillWaiting(e) /\ ~ mon[e].expired /\ EndSignal(ev) /\ MonRecv(e, ev))
                  => (mon'[e] = mon[e] /\ pc'[e] = "mon_recv")
            /\ ( /\ StillWaiting(e) /\ pc'[e] # "mon_recv"
                 /\ \/ MonDeadline(e)
                    \/ MonStreamError(e)
                    \/ \E ev \in RemoteEvents : ev.type # "executed" /\ MonRecv(e, ev) )
               => StepFailed(e)]_vars
    /\ \A e \in Execs : (pc[e] = "mon_recv") ~> (pc[e] # "mon_recv")

C27_Witness ==
    \E e \in Execs :
        /\ StillWaiting(e) /\ mon[e].expired
        /\ mon[e].completed_nodes = {"9"} /\ mon[e].outputs # <<>>

\* the graph has no node with a filename_prefix input whose save_output is
\* not false
NoSaver(graph) ==
    \A k \in 1..Len(graph) :
        \/ ~ graph[k].hasInputs
        \/ "filename_prefix" \notin DOMAIN graph[k].inputs
        \/ /\ "save_output" \in DOMAIN graph[k].inputs
           /\ graph[k].inputs["save_output"] = JFalse

\* C28: when the job of a graph without output node was accepted by the
\* server, monitoring returns at once without connecting to the event
\* stream: the step's result is failed and the execution is failed; the
\* job stays submitted.
C28_NoOutputNodeFails ==
    [][\A e \in Execs :
          (NoSaver(mon[e].graph) /\ SubmitReturn(e, TRUE))
          => /\ StepFailed(e)
             /\ Last(ex'[e].node_results).error = "No outputs detected or execution failed"
             /\ pc'[e] \notin {"connecting", "mon_recv", "history", "caching"}
             /\ posted' = posted /\ Last(posted).graph = mon[e].graph]_vars

C28_Witness ==
    \E e \in Execs :
        /\ pc[e] = "done" /\ chain[e] # <<>> /\ NoSaver(chain[e][1].graph)
        /\ Len(posted) = 1 /\ ex[e].status = "failed"
        /\ ~ ex[e].node_results[1].success

\* C29: the outputs that monitoring returns after the history query hold at
\* most one entry for each output node.
C29_OnePerNode ==
    [][\A e \in Execs, ok \in BOOLEAN, h \in remote.histories :
          (HistoryReturn(e, ok, h) /\ pc'[e] = "caching")
          => \A j, k \in 1..Len(mon'[e].outputs) :
                j # k => mon'[e].outputs[j].nodeId # mon'[e].outputs[k].nodeId]_vars

\* inside "async with self.lock", suspended at a send
InCritical(p) == pc[p] = "bc_send"
\* p enters, goes on in or leaves a ChainProgressManager call in this step
MovesInCall(p) ==
    /\ pc[p] \in {"bc_call", "bc_wait", "bc_send"}
    /\ lock \in {NoProc, p}
    /\ pc'[p] # pc[p] \/ bcast' # bcast

\* C30: at most one coroutine is inside a critical section of the
\* ChainProgressManager, and it holds the lock; while it stays there (its
\* sends are suspended) neither the client set nor the stored snapshot
\* changes; every change of the client set or of the snapshot is made by a
\* coroutine inside a call, that has the lock or finds it free.
C30_Serialized ==
    [][/\ \A p, q \in Procs : (InCritical(p) /\ InCritical(q))' => p = q
       /\ \A p \in Procs : InCritical(p)' => lock' = p
       /\ \A p \in Procs :
             (InCritical(p) /\ InCritical(p)')
             => (clients' = clients /\ current_execution' = current_execution)
       /\ (clients' # clients \/ current_execution' # current_execution)
          => \E p \in Procs :
                /\ MovesInCall(p)
                /\ \A q \in Procs \ {p} : ~ InCritical(q)]_vars

C30_Witness ==
    \E p \in Execs, i \in Intrs, o \in Obs :
        /\ InCritical(p) /\ op[p].kind = "update" /\ o \in bcast.todo
        /\ pc[i] = "bc_wait" /\ op[i].kind = "complete"
        /\ pc[o] = "bc_wait" /\ op[o].kind = "remove"
        /\ Len(waitq) = 2

\* the static bindings of the step are in the graph that is submitted
StaticsApplied(e) ==
    \A sb \in StepOf(e).bindings :
        (sb.type = "static" /\ Len(sb.key) = 2 /\ HasNode(StepOf(e).graph, sb.key[1]))
        => FieldOf(Last(posted').graph, sb.key) = sb.value

\* b names a step before the one resolved, which has a success result, and
\* an output node of which that step cached nothing
NeverCached(e, b) ==
    /\ 0 <= b.sourceWorkflowIndex /\ b.sourceWorkflowIndex < ex[e].i
    /\ ex[e].node_results[b.sourceWorkflowIndex + 1].success
    /\ ~ \E r \in Range(ex[e].node_results[b.sourceWorkflowIndex + 1].outputs) :
            <<r.nodeId>> = b.sourceOutputNodeId

\* C21: when a step is resolved, a dynamic binding that names an earlier,
\* successful step and an output node of which that step cached nothing
\* leaves its target field as it is in the original graph; the static
\* bindings of the step are applied and the step goes to submission.
C21_MissingOutputUntouched ==
    [][\A e \in Execs :
          ExecNode(e) =>
             \A b \in DynamicOf(e) :
                NeverCached(e, b) => (Untouched(e, b) /\ StaticsApplied(e))]_vars

\* the cached outputs of the successful steps among the first n
ProducedBefore(e, n) ==
    UNION {{[key |-> chain[e][k].id \o <<r.nodeId>>, path |-> r.cachedPath] :
               r \in Range(ex[e].node_results[k].outputs)} :
           k \in {j \in 1..n : j <= Len(ex[e].node_results)
                                /\ ex[e].node_results[j].success}}

\* C22: every entry of the output cache has the key and the path of an
\* output cached by a step that has a success result in this execution; and
\* the value that a dynamic binding writes into the graph of step i is the
\* path of an output cached by a step before i.
C22_ForwardOnly ==
    [][\A e \in Execs :
          /\ \A key \in DOMAIN ex'[e].output_cache :
                \E a \in ProducedBefore(e, Len(chain[e]))' :
                   a.key = key /\ a.path = ex'[e].output_cache[key]
          /\ (ExecNode(e) /\ Len(posted') > Len(posted)) =>
                \A b \in DynamicOf(e) :
                   FieldOf(Last(posted').graph, b.key) # FieldOf(StepOf(e).graph, b.key)
                   => \E a \in ProducedBefore(e, ex[e].i) :
                         a.path = FieldOf(Last(posted').graph, b.key)]_vars

C22_Witness ==
    /\ Len(posted) = 3
    /\ FieldOf(posted[3].graph, <<"1", "image">>) = CachedRelativePath("x1", "b.png")
    /\ FieldOf(posted[2].graph, <<"1", "image">>) = <<"in.png">>
    /\ DOMAIN ex[FirstExec].output_cache = {<<"a", "9">>, <<"b", "9">>}
    /\ \E b \in chain[FirstExec][3].bindings :
          b.type = "dynamic" /\ b.sourceWorkflowIndex = 1

\* ------------------------------------- two executions at the same time
\* Two ChainExecutor instances (the handler creates one per request) run
\* execute() on the same event loop and share the one ChainProgressManager;
\* one websocket client may connect.  The chains have steps of different ids.
SecondExec == <<"exec", 2>>

DualChain(e) ==
    [k \in 1..DualSteps |->
        [id |-> <<StepNames[IF e = FirstExec THEN k ELSE DualSteps + k]>>,
         graph |-> StepGraph, bindings |-> {}]]

InitDual ==
    /\ chain = [e \in Execs |-> DualChain(e)]
    /\ flag = FALSE
    /\ running = NoProc
    /\ pc = [p \in Procs |-> IF p \in Obs \ {SpareObs} THEN "closed"
                            ELSE IF p \in Execs THEN "idle"
                            ELSE "off"]
    /\ op = [p \in Procs |-> NoOp]
    /\ ex = [e \in Execs |-> NewExecutor(IF e = FirstExec THEN "x1" ELSE "x2")]
    /\ mon = [e \in Execs |-> NoMonitor]
    /\ remote = MainRemote
    /\ posted = <<>>
    /\ iresult = [i \in Intrs |-> [returned |-> FALSE, success |-> FALSE]]
    /\ lock = NoProc
    /\ waitq = <<>>
    /\ clients = {}
    /\ current_execution = NoExecution
    /\ bcast = NoBroadcast
    /\ log = <<>>
    /\ lastRecv = [o \in Obs |-> NoMessage]
    /\ sub = [o \in Obs |-> NoSub(FALSE)]
    /\ seen = [e \in Execs |-> [during |-> FALSE, overlap |-> FALSE, viaHistory |-> FALSE,
                                midstep |-> FALSE, lost |-> FALSE]]

\* each chain has DualSteps = 1 step: no delay between steps is slept
NextDual ==
    \/ \E p \in Procs : BcEnter(p)
    \/ \E p \in Procs : BcGranted(p)
    \/ \E p \in Procs, c \in Obs : BcSend(p, c, TRUE)
    \/ \E e \in Execs : ExecStart(e)
    \/ \E e \in Execs : ExecEnsureFolder(e, TRUE)
    \/ \E e \in Execs : ExecLoopTop(e)
    \/ \E e \in Execs : ExecNode(e)
    \/ \E e \in Execs, ok \in BOOLEAN : SubmitReturn(e, ok)
    \/ \E e \in Execs : MonConnect(e, TRUE)
    \/ \E e \in Execs : MonRecv(e, ExecutedNine)
    \/ \E e \in Execs : ExecCache(e, {1})
    \/ \E e \in Execs : ExecAfterFailed(e)
    \/ \E e \in Execs : ExecAfterCompleted(e)
    \/ \E o \in Obs : ObsConnect(o)

DualSpec == InitDual /\ [][NextDual]_vars

\* the body of p's call of this kind runs in this step (p gets the lock)
Runs(p, kind) ==
    /\ op[p].kind = kind
    /\ pc[p] \in {"bc_call", "bc_wait"} /\ pc'[p] \notin {"bc_call", "bc_wait"}

\* the call of p returns in this step
Returns(p, kind) == op[p].kind = kind /\ op'[p] = NoOp

\* C31: execute() of a non-empty chain goes on to start_chain_execution while
\* another execute() is in flight; start_chain_execution replaces whatever
\* snapshot is stored by the snapshot of its own execution; an update is
\* applied to and broadcast from the stored snapshot, whose executionId it
\* keeps, whichever execution issues it; a completion is broadcast with the
\* stored snapshot's executionId and clears the snapshot; and an update or
\* completion issued while no snapshot is stored broadcasts nothing.
C31_ConcurrentExecuteCorrupts ==
    [][\A e \in Execs :
          /\ (ExecStart(e) /\ \E d \in Execs \ {e} : InFlight(d))
                => (op'[e] = StartOp("ensure") /\ ex'[e].status = "running")
          /\ Runs(e, "start")
                => /\ current_execution' = StartSnapshot(ex[e].executionId, chain[e])
                   /\ Last(log') = ProgressMessage(current_execution')
          /\ (Runs(e, "update") /\ current_execution.has)
                => /\ current_execution' =
                         UpdatedSnapshot(current_execution, op[e].index,
                                         op[e].status, op[e].error)
                   /\ current_execution'.executionId = current_execution.executionId
                   /\ Len(log') = Len(log) + 1
                   /\ Last(log') = ProgressMessage(current_execution')
          /\ (Runs(e, "complete") /\ current_execution.has)
                => /\ Len(log') = Len(log) + 1
                   /\ Last(log') = FinalMessage(current_execution, op[e].success,
                                                op[e].error)
          /\ Returns(e, "complete") => current_execution' = NoExecution
          /\ (~ current_execution.has /\ (Runs(e, "update") \/ Runs(e, "complete")))
                => /\ log' = log /\ lastRecv' = lastRecv
                   /\ current_execution' = NoExecution
                   /\ pc'[e] = op[e].ret]_vars

\* both executions ran their step with success; the second started before the
\* first one's step was broadcast running: both executions' updates went into
\* the second one's snapshot, the first completion broadcast it as terminal and
\* the other completion was dropped
C31_Witness ==
    /\ \A e \in Execs : pc[e] = "done" /\ ex[e].result.success
    /\ Len(log) = 7
    /\ log[1].executionId = "x1"
    /\ \A k \in 2..7 : log[k].executionId = "x2"
    /\ \A k \in 1..6 : ~ Terminal(log[k])
    /\ Terminal(log[7]) /\ log[7].workflows[1].status = "completed"
    /\ ~ current_execution.has

\* ------------------------------------------- chains with static bindings
\* a loader with inputs, a node without an inputs map and a saver
StatGraph ==
    << GraphNode("1", [image |-> <<"in.png">>]),
       [id |-> "2", hasInputs |-> FALSE, inputs |-> <<>>],
       GraphNode("9", [filename_prefix |-> <<"out">>, images |-> <<"1">>]) >>

\* binding keys: a field the loader has, one it has not, a field of the node
\* without inputs, a field of a node that the graph has not, keys of one and
\* of three parts
StatKeys == {<<"1", "image">>, <<"1", "seed">>, <<"2", "text">>, <<"7", "image">>,
             <<"1">>, <<"1", "image", "x">>}
\* binding.get('value', ''): a literal, or the empty string
StatValues == {<<"v">>, <<"">>}

\* the step has a static binding for each key of any set of keys
InitStat ==
    /\ \E keys \in SUBSET StatKeys :
         \E val \in [keys -> StatValues] :
           chain = [e \in Execs |->
                      IF e = FirstExec
                      THEN [k \in 1..StatSteps |->
                              [id |-> <<StepNames[k]>>, graph |-> StatGraph,
                               bindings |-> {StaticBinding(key, val[key]) : key \in keys}]]
                      ELSE <<>>]
    /\ flag = FALSE
    /\ running = NoProc
    /\ pc = [p \in Procs |-> IF p = FirstExec THEN "idle" ELSE "off"]
    /\ op = [p \in Procs |-> NoOp]
    /\ ex = [e \in Execs |-> NewExecutor("x1")]
    /\ mon = [e \in Execs |-> NoMonitor]
    /\ remote = MainRemote
    /\ posted = <<>>
    /\ iresult = [i \in Intrs |-> [returned |-> FALSE, success |-> FALSE]]
    /\ lock = NoProc
    /\ waitq = <<>>
    /\ clients = {}
    /\ current_execution = NoExecution
    /\ bcast = NoBroadcast
    /\ log = <<>>
    /\ lastRecv = [o \in Obs |-> NoMessage]
    /\ sub = [o \in Obs |-> NoSub(FALSE)]
    /\ seen = [e \in Execs |-> [during |-> FALSE, overlap |-> FALSE, viaHistory |-> FALSE,
                                midstep |-> FALSE, lost |-> FALSE]]

\* the step is resolved and submitted; the submission or the connection to
\* the event stream fails
NextStat ==
    \/ \E p \in Procs : BcEnter(p)
    \/ \E e \in Execs : ExecStart(e)
    \/ \E e \in Execs : ExecEnsureFolder(e, TRUE)
    \/ \E e \in Execs : ExecLoopTop(e)
    \/ \E e \in Execs : ExecNode(e)
    \/ \E e \in Execs, ok \in BOOLEAN : SubmitReturn(e, ok)
    \/ \E e \in Execs : MonConnect(e, FALSE)
    \/ \E e \in Execs : ExecAfterFailed(e)

StatSpec == InitStat /\ [][NextStat]_vars

\* the node of this id in the graph
NodeOf(graph, id) == graph[CHOOSE k \in 1..Len(graph) : graph[k].id = id]

\* the binding's key has two parts and names a node of the graph
Targets(b, graph) == Len(b.key) = 2 /\ HasNode(graph, b.key[1])

\* C32: the graph that _resolve_input_bindings returns for static bindings
\* has the nodes of the original graph; for every binding whose key has two
\* parts and names a node of the graph, that node has an inputs map in which
\* the field has the binding's value; every other field of every node is as
\* in the original graph, a node that no such binding names is the original
\* node (no inputs map is created), and so a key of another number of parts
\* or of an absent node changes nothing.
C32_StaticBindings ==
    [][\A e \in Execs :
          ExecNode(e) =>
             LET orig == StepOf(e).graph
                 bs == {b \in StepOf(e).bindings : b.type = "static"}
                 hit == {b \in bs : Targets(b, orig)}
                 g == Last(posted').graph
             IN  /\ Len(posted') = Len(posted) + 1
                 /\ Len(g) = Len(orig)
                 /\ \A k \in 1..Len(g) : g[k].id = orig[k].id
                 /\ \A b \in hit :
                       /\ NodeOf(g, b.key[1]).hasInputs
                       /\ b.key[2] \in DOMAIN NodeOf(g, b.key[1]).inputs
                       /\ NodeOf(g, b.key[1]).inputs[b.key[2]] = b.value
                 /\ \A k \in 1..Len(g) :
                       LET fields == {b.key[2] : b \in {h \in hit : h.key[1] = g[k].id}}
                       IN  /\ fields = {} => g[k] = orig[k]
                           /\ DOMAIN InputsOf(g[k]) = DOMAIN InputsOf(orig[k]) \cup fields
                           /\ \A f \in DOMAIN InputsOf(orig[k]) \ fields :
                                 InputsOf(g[k])[f] = InputsOf(orig[k])[f]]_vars

\* all six keys are bound: the loader's image is overwritten with the empty
\* string, a new field is added to it, the node without inputs gets an inputs
\* map, the saver is as it was
C32_Witness ==
    /\ Len(posted) = 1
    /\ Cardinality(chain[FirstExec][1].bindings) = 6
    /\ FieldOf(posted[1].graph, <<"1", "image">>) = <<"">>
    /\ FieldOf(posted[1].graph, <<"1", "seed">>) = <<"v">>
    /\ FieldOf(posted[1].graph, <<"2", "text">>) = <<"v">>
    /\ posted[1].graph[3] = StatGraph[3]
    /\ Len(posted[1].graph) = 3

\* every input of the graph posted for a step has the value it has in the
\* step's graph in the chain data, or is the target of a binding of that step
\* and has the binding's literal or the cached path of an output of an
\* earlier step
FromOwnStep(e, p) ==
    LET st == chain[e][p.index + 1]
    IN  /\ Len(p.graph) = Len(st.graph)
        /\ \A n \in 1..Len(p.graph) :
              /\ p.graph[n].id = st.graph[n].id
              /\ \A f \in DOMAIN InputsOf(p.graph[n]) :
                    LET key == <<p.graph[n].id, f>>
                        v == InputsOf(p.graph[n])[f]
                    IN  \/ /\ f \in DOMAIN InputsOf(st.graph[n])
                           /\ InputsOf(st.graph[n])[f] = v
                        \/ \E b \in st.bindings :
                              /\ b.key = key
                              /\ \/ b.type = "static" /\ v = b.value
                                 \/ /\ b.type = "dynamic"
                                    /\ \E j \in 1..p.index :
                                          \E r \in Range(ex[e].node_results[j].outputs) :
                                             r.cachedPath = v

PostedFromOwnStep ==
    \A k \in 1..Len(posted) : FromOwnStep(FirstExec, posted[k])

\* C33: no step of an execution changes the chain data (the graphs and the
\* bindings of the steps); the graph posted for a step is made of the step's
\* own graph and of the values of its own bindings.
C33_DeepCopy ==
    [][/\ chain' = chain
       /\ PostedFromOwnStep']_vars

\* the three steps ran; the second and third were posted with a cached path
\* as the loader's image and the literal prefix, and the chain data still has
\* the original image and prefix in every step
C33_Witness ==
    /\ pc[FirstExec] = "done" /\ Len(posted) = 3
    /\ \A k \in 2..3 :
          /\ FieldOf(posted[k].graph, <<"1", "image">>)
                = CachedRelativePath("x1", "a.png")
          /\ FieldOf(posted[k].graph, <<"9", "filename_prefix">>) = <<"pre">>
    /\ \A k \in 1..3 : chain[FirstExec][k].graph = StepGraph

\* C34: update_workflow_status(index, status, error) on a stored snapshot sets
\* the status of the step at index (and its error, if one is given), leaves
\* the other steps and the executionId as they are, sets currentWorkflowIndex
\* to index for 'running' and to index + 1 for 'completed' of a step that is
\* not the last, leaves it as it is otherwise, and hands the snapshot to
\* _broadcast once, for all registered clients; with no snapshot stored it
\* changes nothing and broadcasts nothing.
C34_UpdateStep ==
    [][\A p \in Procs :
          Runs(p, "update") =>
             LET cur == current_execution
                 new == current_execution'
                 o == op[p]
                 n == Len(cur.workflows)
             IN  IF cur.has
                 THEN /\ new.has /\ new.executionId = cur.executionId
                      /\ Len(new.workflows) = n
                      /\ \A k \in 1..n :
                            IF k = o.index + 1
                            THEN /\ new.workflows[k].status = o.status
                                 /\ new.workflows[k].id = cur.workflows[k].id
                                 /\ new.workflows[k].error =
                                       (IF o.error # "" THEN o.error
                                        ELSE cur.workflows[k].error)
                            ELSE new.workflows[k] = cur.workflows[k]
                      /\ new.currentWorkflowIndex =
                            (CASE o.status = "running" -> o.index
                               [] o.status = "completed" /\ o.index + 1 < n -> o.index + 1
                               [] OTHER -> cur.currentWorkflowIndex)
                      /\ log' = Append(log, ProgressMessage(new))
                      /\ clients # {} => (pc'[p] = "bc_send" /\ bcast'.todo = clients
                                            /\ bcast'.msg = ProgressMessage(new))
                      /\ clients = {} => pc'[p] = o.ret
                 ELSE /\ UNCHANGED <<current_execution, log, lastRecv, clients>>
                      /\ pc'[p] = o.ret]_vars

\* a chain of two steps ran to the 'completed' update of its last step: the
\* log holds running(0), completed(0) with the index moved to 1, waiting(1),
\* running(1) and completed(1) with the index left at 1
C34_Witness ==
    /\ Len(chain[FirstExec]) = 2 /\ Len(log) = 6
    /\ log[2].workflows[1].status = "running" /\ log[2].currentWorkflowIndex = 0
    /\ log[3].workflows[1].status = "completed" /\ log[3].currentWorkflowIndex = 1
    /\ log[4].workflows[2].status = "waiting" /\ log[4].currentWorkflowIndex = 1
    /\ log[5].workflows[2].status = "running" /\ log[5].currentWorkflowIndex = 1
    /\ log[6].workflows[2].status = "completed" /\ log[6].currentWorkflowIndex = 1
    /\ ~ Terminal(log[6]) /\ current_execution.has
    /\ clients # {}

\* execute() of e is in its loop: the status is running, start_chain_execution
\* has returned and execute() has not
RunningLoop(e) ==
    /\ pc[e] \notin {"off", "idle", "done"}
    /\ op[e].kind # "start"
    /\ ex[e].status = "running"

\* the stored snapshot is that of e; get_current_state returns it
HoldsSnapshot(e) ==
    /\ current_execution.has
    /\ current_execution.executionId = ex[e].executionId
    /\ CurrentState(current_execution).isExecuting

\* C35: while execute() is in its loop the broadcaster holds the snapshot of
\* that execution (isExecuting, that execution's id), so get_current_state
\* never returns the idle state, also after an interrupt() was issued.
C35_Original ==
    \A e \in Execs : RunningLoop(e) => HoldsSnapshot(e)

\* ------------------------------- the remote server's events, as emitted
\* The remote server runs an accepted job on its own and emits the job's
\* events to the event-stream connections that are open at that moment.
\* remote.job: the events the server has still to emit for the job;
\* remote.stream: the events written to the executor's connection and not yet
\* read by recv().
JobScripts ==
    { << Event("executing", "mine", "9", NoPayload), ExecutedNine >>,
      << Event("execution_cached", "mine", NoneStr, NoPayload), ExecutingNull >>,
      << ExecutedNine, Event("execution_success", "mine", NoneStr, NoPayload) >> }

RaceRemote(script) ==
    [nodes |-> {"9"}, payloads |-> {ImagePayload},
     histories |-> {<<>>, [n \in {"9"} |-> ImagePayload]},
     job |-> script, stream |-> <<>>]

\* the server emits the next event of the job, after it answered the POST:
\* into the executor's connection if websockets.connect has returned, else to
\* nobody
RemoteEmit(e) ==
    /\ pc[e] \in {"connecting", "mon_recv"} /\ running = NoProc
    /\ remote.job # <<>>
    /\ remote' = [remote EXCEPT
                    !.job = Tail(@),
                    !.stream = IF pc[e] = "mon_recv"
                               THEN Append(@, Head(remote.job)) ELSE @]
    /\ UNCHANGED <<chain, flag, running, pc, op, ex, mon, posted, iresult, seen>>
    /\ UNCHANGED bcVars

\* websocket.recv() returns the next event written to the connection
MonRecvStream(e) ==
    /\ pc[e] = "mon_recv" /\ running = NoProc
    /\ remote.stream # <<>>
    /\ LET r == ProcessEvent(mon[e], Head(remote.stream))
       IN  /\ IF r.brk \/ mon[e].expired
              THEN LeaveLoop(e, r.m)
              ELSE /\ mon' = [mon EXCEPT ![e] = r.m]
                   /\ UNCHANGED <<ex, op, running, pc>>
           /\ seen' = [seen EXCEPT ![e].lost =
                           @ \/ (r.m.execution_failed /\ mon[e].outputs # <<>>)]
    /\ remote' = [remote EXCEPT !.stream = Tail(@)]
    /\ UNCHANGED <<chain, flag, posted, iresult>>
    /\ UNCHANGED bcVars

InitRace ==
    /\ chain = [e \in Execs |-> IF e = FirstExec THEN ChainOfLength(RaceSteps) ELSE <<>>]
    /\ flag = FALSE
    /\ running = NoProc
    /\ pc = [p \in Procs |-> IF p \in Obs \ {SpareObs} THEN "closed"
                            ELSE IF p = FirstExec THEN "idle"
                            ELSE "off"]
    /\ op = [p \in Procs |-> NoOp]
    /\ ex = [e \in Execs |-> NewExecutor("x1")]
    /\ mon = [e \in Execs |-> NoMonitor]
    /\ \E script \in JobScripts : remote = RaceRemote(script)
    /\ posted = <<>>
    /\ iresult = [i \in Intrs |-> [returned |-> FALSE, success |-> FALSE]]
    /\ lock = NoProc
    /\ waitq = <<>>
    /\ clients = {}
    /\ current_execution = NoExecution
    /\ bcast = NoBroadcast
    /\ log = <<>>
    /\ lastRecv = [o \in Obs |-> NoMessage]
    /\ sub = [o \in Obs |-> NoSub(FALSE)]
    /\ seen = [e \in Execs |-> [during |-> FALSE, overlap |-> FALSE, viaHistory |-> FALSE,
                                midstep |-> FALSE, lost |-> FALSE]]

\* the chain has RaceSteps = 1 step: no delay between steps is slept
NextRace ==
    \/ \E p \in Procs : BcEnter(p)
    \/ \E p \in Procs, c \in Obs : BcSend(p, c, TRUE)
    \/ \E e \in Execs : ExecStart(e)
    \/ \E e \in Execs : ExecEnsureFolder(e, TRUE)
    \/ \E e \in Execs : ExecLoopTop(e)
    \/ \E e \in Execs : ExecNode(e)
    \/ \E e \in Execs : SubmitReturn(e, TRUE)
    \/ \E e \in Execs : MonConnect(e, TRUE)
    \/ \E e \in Execs : RemoteEmit(e)
    \/ \E e \in Execs : MonRecvStream(e)
    \/ \E e \in Execs : MonTick(e)
    \/ \E e \in Execs : MonDeadline(e)
    \/ \E e \in Execs, h \in remote.histories : HistoryReturn(e, TRUE, h)
    \/ \E e \in Execs : ExecCache(e, {1})
    \/ \E e \in Execs : ExecAfterFailed(e)
    \/ \E e \in Execs : ExecAfterCompleted(e)
    \/ \E o \in Obs : ObsConnect(o)

\* time passes and the connection is opened
FairRace ==
    \A e \in Execs :
        /\ WF_vars(MonTick(e)) /\ WF_vars(MonDeadline(e))
        /\ WF_vars(MonConnect(e, TRUE)) /\ WF_vars(MonRecvStream(e))

RaceSpec == InitRace /\ [][NextRace]_vars /\ FairRace

\* the server has emitted every event of the job
JobFinished == remote.job = <<>>

\* C36: no event of the job is lost to monitoring: the receive loop is never
\* left waiting, with nothing to read, for a job whose events the server has
\* all emitted (it would wait until the overall deadline and fail the step).
C36_NoEventLost ==
    \A e \in Execs :
        (pc[e] = "mon_recv" /\ JobFinished) => remote.stream # <<>>

\* the step list of a terminal message: completed steps, then at most one
\* failed step, then pending steps
StoppedList(w) ==
    \E j \in 0..Len(w) :
        /\ \A m \in 1..j : w[m].status = "completed"
        /\ \A m \in (j + 1)..Len(w) :
              \/ w[m].status = "pending"
              \/ m = j + 1 /\ w[m].status = "failed"

\* C37: in every terminal message handed to _broadcast no step is running or
\* waiting; with success=true every step is completed, with success=false the
\* steps are completed up to the stopping point, at most one is failed and
\* the rest are pending.
C37_TerminalConsistent ==
    \A k \in LogIndices :
        Terminal(log[k]) =>
            /\ \A m \in 1..Len(log[k].workflows) :
                  log[k].workflows[m].status \notin {"running", "waiting"}
            /\ log[k].success =>
                  \A m \in 1..Len(log[k].workflows) :
                      log[k].workflows[m].status = "completed"
            /\ ~ log[k].success => StoppedList(log[k].workflows)

\* node_results is a record of the first steps of the chain, in order, of
\* which only the last may have failed
PrefixRecord(e) ==
    LET res == ex[e].node_results
    IN  /\ Len(res) <= Len(chain[e])
        /\ \A k \in 1..Len(res) : res[k].nodeId = chain[e][k].id
        /\ \A k \in 1..(Len(res) - 1) : res[k].success

\* C38: in every state node_results has at most as many entries as the chain
\* has steps, its k-th entry has the id of the k-th step and every entry but
\* the last has success=true; node_results changes only by an entry being
\* appended, and never after an entry with success=false.
C38_ResultsArePrefix ==
    [][\A e \in Execs :
          /\ PrefixRecord(e)'
          /\ ex'[e].node_results # ex[e].node_results
                => /\ Len(ex'[e].node_results) = Len(ex[e].node_results) + 1
                   /\ SubSeq(ex'[e].node_results, 1, Len(ex[e].node_results))
                         = ex[e].node_results
                   /\ \A k \in 1..Len(ex[e].node_results) :
                         ex[e].node_results[k].success]_vars

\* a chain of two steps whose second step failed, after an interrupt() that
\* did not stop it
C38_Witness ==
    \E e \in Execs :
        /\ pc[e] = "done" /\ Len(chain[e]) = 2
        /\ Len(ex[e].node_results) = 2
        /\ ex[e].node_results[1].success /\ ~ ex[e].node_results[2].success
        /\ ex[e].node_results[2].nodeId = <<"s2">>
        /\ seen[e].during

\* --------------------------------------------- execute() under fairness
\* One execution of a chain of up to TermSteps steps, with every answer and
\* every event of the remote server; one observer may connect; no interrupt().
InitTerm ==
    /\ \E n \in 0..TermSteps :
           chain = [e \in Execs |-> IF e = FirstExec THEN ChainOfLength(n) ELSE <<>>]
    /\ flag = FALSE
    /\ running = NoProc
    /\ pc = [p \in Procs |-> IF p \in Obs \ {SpareObs} THEN "closed"
                            ELSE IF p = FirstExec THEN "idle"
                            ELSE "off"]
    /\ op = [p \in Procs |-> NoOp]
    /\ ex = [e \in Execs |-> NewExecutor("x1")]
    /\ mon = [e \in Execs |-> NoMonitor]
    /\ remote = MainRemote
    /\ posted = <<>>
    /\ iresult = [i \in Intrs |-> [returned |-> FALSE, success |-> FALSE]]
    /\ lock = NoProc
    /\ waitq = <<>>
    /\ clients = {}
    /\ current_execution = NoExecution
    /\ bcast = NoBroadcast
    /\ log = <<>>
    /\ lastRecv = [o \in Obs |-> NoMessage]
    /\ sub = [o \in Obs |-> NoSub(FALSE)]
    /\ seen = [e \in Execs |-> [during |-> FALSE, overlap |-> FALSE, viaHistory |-> FALSE,
                                midstep |-> FALSE, lost |-> FALSE]]

NextTerm ==
    \/ \E p \in Procs : BcEnter(p)
    \/ \E p \in Procs : BcGranted(p)
    \/ \E p \in Procs, c \in Obs, ok \in BOOLEAN : BcSend(p, c, ok)
    \/ \E o \in Obs : ObsConnect(o)
    \/ \E e \in Execs : ExecStart(e)
    \/ \E e \in Execs, ok \in BOOLEAN : ExecEnsureFolder(e, ok)
    \/ \E e \in Execs : ExecLoopTop(e)
    \/ \E e \in Execs : ExecNode(e)
    \/ \E e \in Execs, ok \in BOOLEAN : SubmitReturn(e, ok)
    \/ \E e \in Execs, ok \in BOOLEAN : MonConnect(e, ok)
    \/ \E e \in Execs, ev \in RemoteEvents : MonRecv(e, ev)
    \/ \E e \in Execs : MonTick(e)
    \/ \E e \in Execs : MonDeadline(e)
    \/ \E e \in Execs : MonStreamError(e)
    \/ \E e \in Execs, ok \in BOOLEAN, h \in remote.histories : HistoryReturn(e, ok, h)
    \/ \E e \in Execs, copied \in SUBSET (1..(2 * MaxOutputs)) : ExecCache(e, copied)
    \/ \E e \in Execs : ExecAfterFailed(e)
    \/ \E e \in Execs : ExecAfterCompleted(e)
    \/ \E e \in Execs : ExecWake(e)

\* The event loop runs a coroutine up to its next await, the clock advances
\* and every await of execute() that is ready is resumed: the POST and the
\* connection attempt answer or time out, recv() times out after 5 s, the
\* history query answers or times out, the sleep between two steps ends, a
\* send to an observer returns or raises and a released lock is taken.
\* Nothing is assumed of the events: recv() may never return one.
FairTerm ==
    /\ WF_vars(running # NoProc /\ NextTerm)
    /\ \A p \in Procs :
          /\ WF_vars(BcGranted(p))
          /\ WF_vars(\E c \in Obs, ok \in BOOLEAN : BcSend(p, c, ok))
    /\ \A e \in Execs :
          /\ WF_vars(\E ok \in BOOLEAN : SubmitReturn(e, ok))
          /\ WF_vars(\E ok \in BOOLEAN : MonConnect(e, ok))
          /\ WF_vars(MonTick(e))
          /\ WF_vars(MonDeadline(e))
          /\ WF_vars(\E ok \in BOOLEAN, h \in remote.histories : HistoryReturn(e, ok, h))
          /\ WF_vars(ExecWake(e))

TermSpec == InitTerm /\ [][NextTerm]_vars /\ FairTerm

\* each step is submitted at most once, in the order of the chain
OnePass(e) ==
    /\ Cardinality(PostedBy(e)) <= Len(chain[e])
    /\ \A k \in PostedBy(e) : posted[k].index < Len(chain[e])
    /\ \A j, k \in PostedBy(e) : j < k => posted[j].index < posted[k].index

\* C39: execute() returns: every monitoring loop that is entered is left, and
\* every execute() that is called returns a result, having submitted each
\* step at most once, in order, whatever events the remote server emits.
C39_ExecuteTerminates ==
    /\ [](\A e \in Execs : pc[e] # "off" => OnePass(e))
    /\ \A e \in Execs : (pc[e] = "mon_recv") ~> (pc[e] # "mon_recv")
    /\ \A e \in Execs : (InFlight(e)) ~> (pc[e] = "done")

\* execute() has returned after both steps of a chain were submitted once, the
\* monitoring of the second having ended without outputs
C39_Witness ==
    \E e \in Execs :
        /\ pc[e] = "done" /\ Len(chain[e]) = 2
        /\ Len(ex[e].node_results) = 2 /\ Cardinality(PostedBy(e)) = 2
        /\ ex[e].node_results[2].error = "No outputs detected or execution failed"
====
